---------------------------- MODULE Spec2Model ----------------------------
(***************************************************************************)
(* State-machine model of the zone-sharded traffic simulation             *)
(* (simulacion_trafico_engine): traffic lights, vehicles, zone nodes, the *)
(* migration channel and the orchestrator's zone tasks.                    *)
(*                                                                         *)
(* Positions are pixels.  Spawn speeds, which the code draws as floats    *)
(* from [1.8, 3.8], are drawn from a small set of whole pixels per tick,   *)
(* so int() truncation of a position is the identity.  Fractional          *)
(* thresholds of the code (0.6, 2.5, 0.3 ...) are compared after scaling   *)
(* both sides by 10 or 20.                                                 *)
(***************************************************************************)
EXTENDS Integers, Sequences, FiniteSets, TLC

VARIABLES
    city_config,     \* the zones of the configuration file, in file order
    lights,          \* zone -> [E, W, N, S -> traffic light]     (ZoneMap.traffic_lights)
    vehicles,        \* zone -> sequence of vehicles, insertion order (ZoneNode.vehicles)
    spawn_timer,     \* zone -> ticks since the last automatic spawn attempt
    spawn_interval,  \* zone -> ticks between automatic spawn attempts
    manual_spawn_pending, \* zone -> BOOLEAN
    is_running,      \* zone -> BOOLEAN                               (ZoneNode.is_running)
    pc,              \* zone -> position of the zone task in its loop
    ticks,           \* zone -> number of ticks started (bounded by MaxTicks)
    stop_called,     \* zone -> BOOLEAN: stop() was called from outside the zone task
    broker_ready,    \* BOOLEAN: rabbit_client.async_exchange is set
    published,       \* set of migration messages handed to the broker
    gui_running,     \* BOOLEAN: MainGUI.running
    current_zone_vehicles_list, \* zone -> ids of the vehicles the tick in flight updates
    orch,            \* position of the orchestrator: "gui", "waiting", "closing", "done"
    ev,              \* the last step taken and its outcome (what the code logs)
    bench,           \* a pair of traffic lights driven alone (light bench)
    boot             \* the orchestrator's start-up: configuration read, nodes built, tasks started

vars == << city_config, lights, vehicles, spawn_timer, spawn_interval, manual_spawn_pending,
           is_running, pc, ticks, stop_called, broker_ready, published, gui_running,
           current_zone_vehicles_list, orch, ev, bench, boot >>

zoneVars == << city_config, lights, vehicles, spawn_timer, spawn_interval, manual_spawn_pending,
               is_running, pc, ticks, stop_called, broker_ready, published,
               gui_running, current_zone_vehicles_list, orch >>

-----------------------------------------------------------------------------
(* Bounds of the model *)

MaxTicks == 4
MaxIds == 2
MaxBenchTicks == 400

MaxZoneEntries == 3

\* the ticks of a run that follows one zone through two firings of its spawn
\* timer and until its lights have been through every phase
MaxTimerTicks == 125

\* the ticks of a run that follows two vehicles on one lane
MaxLaneTicks == 8

(* Inputs drawn from small sets *)

SpawnSpeeds == {2, 3}
FastSpawnSpeeds == {3}
CycleTimes == {240}
SpawnIntervals == {45}
BenchCycleTimes == {100, 150} \cup (240..360)
BenchOffsets == {0, 25, 55, 90}

-----------------------------------------------------------------------------
(* Small helpers *)

Abs(n) == IF n < 0 THEN -n ELSE n

Max2(a, b) == IF a > b THEN a ELSE b

Min2(a, b) == IF a < b THEN a ELSE b

\* Python's int() of k + 0.5 for an integer k: truncation toward zero.
IntOfHalf(k) == IF k >= 0 THEN k ELSE k + 1

\* pygame.Rect
Rect(x, y, w, h) == [x |-> x, y |-> y, w |-> w, h |-> h]

RLeft(r) == r.x

RRight(r) == r.x + r.w

RTop(r) == r.y

RBottom(r) == r.y + r.h

RCenterX(r) == r.x + (r.w \div 2)

RCenterY(r) == r.y + (r.h \div 2)

CollidePoint(r, px, py) ==
    /\ r.x <= px /\ px < r.x + r.w
    /\ r.y <= py /\ py < r.y + r.h

CollideRect(a, b) ==
    /\ a.x < b.x + b.w /\ b.x < a.x + a.w
    /\ a.y < b.y + b.h /\ b.y < a.y + a.h

RClip(a, b) ==
    LET x1 == Max2(a.x, b.x)
        y1 == Max2(a.y, b.y)
        x2 == Min2(a.x + a.w, b.x + b.w)
        y2 == Min2(a.y + a.h, b.y + b.h)
    IN  IF x2 > x1 /\ y2 > y1 THEN Rect(x1, y1, x2 - x1, y2 - y1)
        ELSE Rect(a.x, a.y, 0, 0)

-----------------------------------------------------------------------------
(* TrafficLight *)

GreenLenRounded(cycle_time) == ((45 * cycle_time) + 50) \div 100

\* timings["green"], timings["yellow"]: int(ratio * cycle_time)
GreenLen(cycle_time) == (45 * cycle_time) \div 100

YellowLen(cycle_time) == (10 * cycle_time) \div 100

RedLen(cycle_time) == cycle_time - (GreenLen(cycle_time) + YellowLen(cycle_time))

StateAtTimeInclusive(cycle_time, time_in_cycle) ==
    IF time_in_cycle <= GreenLen(cycle_time) THEN "green"
    ELSE IF time_in_cycle <= GreenLen(cycle_time) + YellowLen(cycle_time) THEN "yellow"
    ELSE "red"

_get_state_at_time(cycle_time, time_in_cycle) ==
    IF time_in_cycle < GreenLen(cycle_time) THEN "green"
    ELSE IF time_in_cycle < GreenLen(cycle_time) + YellowLen(cycle_time) THEN "yellow"
    ELSE "red"

InitialPhaseNoOffset(cycle_time, offset_pct) == 0

InitialPhaseQuarterCycle(cycle_time, offset_pct) == IF offset_pct = 0 THEN 0 ELSE cycle_time \div 4

\* int(initial_offset_factor * cycle_time) % cycle_time, the factor in percent
InitialPhase(cycle_time, offset_pct) == ((offset_pct * cycle_time) \div 100) % cycle_time

TrafficLight(x, y, w, h, orientation, cycle_time, offset_pct) ==
    [ rect |-> Rect(x, y, w, h),
      orientation |-> orientation,
      cycle_time |-> cycle_time,
      current_cycle_time |-> InitialPhase(cycle_time, offset_pct),
      state |-> _get_state_at_time(cycle_time, InitialPhase(cycle_time, offset_pct)) ]

NextCycleTimeNoWrap(l) == l.current_cycle_time + 1

\* (current_cycle_time + 1) % cycle_time
NextCycleTime(l) == (l.current_cycle_time + 1) % l.cycle_time

update_async(l) ==
    LET t == NextCycleTime(l)
        new_state == _get_state_at_time(l.cycle_time, t)
    IN  [l EXCEPT !.current_cycle_time = t,
                  !.state = IF new_state # l.state THEN new_state ELSE l.state]

NoticeEveryTick(l) == 1

\* the calls update_async makes to metrics_client.traffic_light_changed
ChangeNotices(l) ==
    IF _get_state_at_time(l.cycle_time, NextCycleTime(l)) # l.state THEN 1 ELSE 0

-----------------------------------------------------------------------------
(* City configuration (config/city_layout.json), an input of the run *)

ZoneConf(id, x, y, w, h, adjacencies, cap) ==
    [ id |-> id, bounds |-> Rect(x, y, w, h), adjacencies |-> adjacencies,
      max_vehicles_local |-> cap ]

\* two zones side by side, A west of B, narrower than the road so that a
\* vehicle on the horizontal road leaves its zone within a few ticks
CityTwo == << ZoneConf("A", 0, 0, 16, 160, <<"B">>, 1),
              ZoneConf("B", 16, 0, 16, 160, <<"A">>, 1) >>

\* a single zone with no neighbour, the whole crossing inside it
CityOne == << ZoneConf("A", 0, 0, 160, 160, << >>, 2) >>

\* a single zone that holds one vehicle
CityTight == << ZoneConf("A", 0, 0, 160, 160, << >>, 1) >>

\* a single zone whose adjacency list names a zone B that this configuration
\* does not define (the lookup in _determine_target_zone skips it)
CityHub == << ZoneConf("A", 0, 0, 160, 160, <<"B">>, 2) >>

\* two narrow zones side by side, A reaching further south than B, where A
\* lists B as adjacent and B lists no zone
CityGap == << ZoneConf("A", 0, 0, 16, 200, <<"B">>, 1),
              ZoneConf("B", 16, 0, 16, 160, << >>, 1) >>

\* the two narrow zones side by side, with room for two vehicles in A
CityPair == << ZoneConf("A", 0, 0, 16, 160, <<"B">>, 2),
               ZoneConf("B", 16, 0, 16, 160, <<"A">>, 1) >>

\* a single zone with room for two vehicles whose adjacency list names a zone
\* C that the configuration does not define
CityLane == << ZoneConf("A", 0, 0, 160, 160, <<"C">>, 2) >>

\* a single zone with no neighbour and room for one vehicle, followed over
\* more than one spawn interval
CityTimer == << ZoneConf("T", 0, 0, 160, 160, << >>, 1) >>

Zones == {city_config[i].id : i \in 1..Len(city_config)}

ConfOf(z) == city_config[CHOOSE i \in 1..Len(city_config) : city_config[i].id = z]

Bounds(z) == ConfOf(z).bounds

max_vehicles_in_zone(z) == ConfOf(z).max_vehicles_local

NoZone == "none"

-----------------------------------------------------------------------------
(* ZoneMap: roads, intersection, traffic lights and spawn points (local) *)

RoadWidth == 60

HRoadRect(z) == Rect(0, (Bounds(z).h \div 2) - (RoadWidth \div 2), Bounds(z).w, RoadWidth)

VRoadRect(z) == Rect((Bounds(z).w \div 2) - (RoadWidth \div 2), 0, RoadWidth, Bounds(z).h)

Intersection(z) == RClip(HRoadRect(z), VRoadRect(z))

HasIntersection(z) == Intersection(z).w > 5 /\ Intersection(z).h > 5

LightNames == <<"E", "W", "N", "S">>

\* the four lights of initialize_map_elements, in the order they are appended
initialize_map_elements(z, base_cycle_time) ==
    LET i == Intersection(z)
        h == HRoadRect(z)
        v == VRoadRect(z)
    IN  [ E |-> TrafficLight(RRight(i) + 5, RTop(h) - 3, 12, 36, "vertical", base_cycle_time, 0),
          W |-> TrafficLight(RLeft(i) - 12 - 5, RTop(h) + 27, 12, 36, "vertical", base_cycle_time, 0),
          N |-> TrafficLight(RLeft(v) + 27, RTop(i) - 12 - 5, 36, 12, "horizontal", base_cycle_time, 55),
          S |-> TrafficLight(RLeft(v) - 3, RBottom(i) + 5, 36, 12, "horizontal", base_cycle_time, 55) ]

\* ZoneMap.update: every light advances one tick
ZoneMapUpdate(ls) == [n \in DOMAIN ls |-> update_async(ls[n])]

get_spawn_points_local(z) ==
    LET h == HRoadRect(z)
        v == VRoadRect(z)
    IN  << [x |-> Bounds(z).w - 20, y |-> IntOfHalf(RTop(h) + 7), direction |-> "left"],
           [x |-> 20 - 30, y |-> IntOfHalf(RTop(h) + 37), direction |-> "right"],
           [x |-> IntOfHalf(RLeft(v) + 7), y |-> Bounds(z).h - 20, direction |-> "up"],
           [x |-> IntOfHalf(RLeft(v) + 37), y |-> 20 - 30, direction |-> "down"] >>

-----------------------------------------------------------------------------
(* Vehicle *)

Horizontal(direction) == direction \in {"left", "right"}

draw_width(direction) == IF direction \in {"up", "down"} THEN 20 ELSE 40

draw_height(direction) == IF direction \in {"up", "down"} THEN 40 ELSE 20

\* Vehicle.__init__: stopped and is_despawned_globally start false, rect at (0, 0)
Vehicle(id, global_x, global_y, speed, original_speed, direction, current_zone_id) ==
    [ id |-> id, global_x |-> global_x, global_y |-> global_y,
      direction |-> direction, speed |-> speed, original_speed |-> original_speed,
      stopped |-> FALSE, current_zone_id |-> current_zone_id,
      rect_x |-> 0, rect_y |-> 0, is_despawned_globally |-> FALSE ]

\* Vehicle.__init__ assigns no attribute named color
HasColorAttribute(v) == FALSE

VRect(v) == Rect(v.rect_x, v.rect_y, draw_width(v.direction), draw_height(v.direction))

get_global_rect(v) == Rect(v.global_x, v.global_y, draw_width(v.direction), draw_height(v.direction))

StopKeepsSpeed(v) == IF ~v.stopped THEN [v EXCEPT !.stopped = TRUE] ELSE v

stop(v) == IF ~v.stopped THEN [v EXCEPT !.stopped = TRUE, !.speed = 0] ELSE v

ResumeKeepsSpeed(v) == IF v.stopped THEN [v EXCEPT !.stopped = FALSE] ELSE v

resume_speed(v) == [v EXCEPT !.speed = v.original_speed]

resume(v) == IF v.stopped THEN resume_speed([v EXCEPT !.stopped = FALSE]) ELSE v

\* distance from the vehicle's front to the facing edge of a light
DistToLightEdge(v, l) ==
    CASE v.direction = "right" -> RLeft(l.rect) - RRight(VRect(v))
      [] v.direction = "left"  -> RLeft(VRect(v)) - RRight(l.rect)
      [] v.direction = "down"  -> RTop(l.rect) - RBottom(VRect(v))
      [] OTHER                 -> RTop(VRect(v)) - RBottom(l.rect)

CorrectOrientation(v, l) ==
    \/ Horizontal(v.direction) /\ l.orientation = "vertical"
    \/ ~Horizontal(v.direction) /\ l.orientation = "horizontal"

\* alignment_tolerance_factor 0.6, compared after scaling by 10
IsAheadAndAligned(v, l) ==
    /\ DistToLightEdge(v, l) >= 0
    /\ IF Horizontal(v.direction)
       THEN 10 * Abs(RCenterY(l.rect) - RCenterY(VRect(v))) < 6 * l.rect.h
       ELSE 10 * Abs(RCenterX(l.rect) - RCenterX(VRect(v))) < 6 * l.rect.w

LookaheadDistance(v) == (v.original_speed * 20) + draw_width(v.direction)

IsCandidateLight(v, l) ==
    /\ CorrectOrientation(v, l)
    /\ IsAheadAndAligned(v, l)
    /\ DistToLightEdge(v, l) < LookaheadDistance(v)

\* index in LightNames of the relevant light, 0 when there is none:
\* the nearest candidate, the first of the list among equals
_get_relevant_light_local(v, ls) ==
    LET cand == {i \in 1..Len(LightNames) : IsCandidateLight(v, ls[LightNames[i]])}
    IN  IF cand = {} THEN 0
        ELSE CHOOSE i \in cand :
               \A j \in cand :
                  \/ DistToLightEdge(v, ls[LightNames[i]]) < DistToLightEdge(v, ls[LightNames[j]])
                  \/ /\ DistToLightEdge(v, ls[LightNames[i]]) = DistToLightEdge(v, ls[LightNames[j]])
                     /\ i <= j

StopAnywhereInLookahead10(v) == 10 * LookaheadDistance(v)

NoStoppingDistance10(v) == 0

\* thresholds scaled by 10
StoppingDecisionThreshold10(v) == (25 * v.original_speed) + (3 * draw_width(v.direction))

StopPastLineThreshold10(v) == -(5 * draw_width(v.direction))

YellowStopThreshold10(v) == (15 * v.original_speed) + draw_width(v.direction)

_check_action_at_light_local(v, ls) ==
    LET k == _get_relevant_light_local(v, ls)
    IN  IF k = 0 THEN "proceed"
        ELSE LET l == ls[LightNames[k]]
                 d10 == 10 * DistToLightEdge(v, l)
             IN  IF d10 < StoppingDecisionThreshold10(v) /\ d10 > StopPastLineThreshold10(v)
                 THEN IF l.state = "red" THEN "stop"
                      ELSE IF /\ l.state = "yellow"
                              /\ d10 < YellowStopThreshold10(v)
                              /\ d10 > StopPastLineThreshold10(v)
                           THEN "stop"
                           ELSE "proceed"
                 ELSE "proceed"

\* safe_dist_factor 0.2 and the 0.9 lateral factor, compared after scaling
IsFrontCollision(v, o) ==
    LET a == VRect(v)
        b == VRect(o)
        lateralY == 20 * Abs(RCenterY(a) - RCenterY(b)) < 9 * (a.h + b.h)
        lateralX == 20 * Abs(RCenterX(a) - RCenterX(b)) < 9 * (a.w + b.w)
    IN  CASE v.direction = "right" ->
               /\ RLeft(b) > RCenterX(a)
               /\ 10 * RLeft(b) < (10 * RRight(a)) + (2 * a.w)
               /\ lateralY
          [] v.direction = "left" ->
               /\ RRight(b) < RCenterX(a)
               /\ 10 * RRight(b) > (10 * RLeft(a)) - (2 * a.w)
               /\ lateralY
          [] v.direction = "down" ->
               /\ RTop(b) > RCenterY(a)
               /\ 10 * RTop(b) < (10 * RBottom(a)) + (2 * a.h)
               /\ lateralX
          [] v.direction = "up" ->
               /\ RBottom(b) < RCenterY(a)
               /\ 10 * RBottom(b) > (10 * RTop(a)) - (2 * a.h)
               /\ lateralX
          [] OTHER -> FALSE

AvoidAnyOverlap(v, others) ==
    \E j \in 1..Len(others) :
        /\ others[j].id # v.id
        /\ ~others[j].is_despawned_globally
        /\ CollideRect(VRect(v), VRect(others[j]))

MustAvoid(v, others) ==
    \E j \in 1..Len(others) :
        /\ others[j].id # v.id
        /\ ~others[j].is_despawned_globally
        /\ CollideRect(VRect(v), VRect(others[j]))
        /\ IsFrontCollision(v, others[j])

Moved(v) ==
    CASE v.direction = "right" -> [v EXCEPT !.global_x = v.global_x + v.speed]
      [] v.direction = "left"  -> [v EXCEPT !.global_x = v.global_x - v.speed]
      [] v.direction = "up"    -> [v EXCEPT !.global_y = v.global_y - v.speed]
      [] v.direction = "down"  -> [v EXCEPT !.global_y = v.global_y + v.speed]
      [] OTHER                 -> v

WithLocalRect(v, offx, offy) ==
    [v EXCEPT !.rect_x = v.global_x - offx, !.rect_y = v.global_y - offy]

UpdateWithoutRevert(v, ls, others, offx, offy) ==
    IF v.is_despawned_globally THEN v
    ELSE
      LET old == WithLocalRect(v, offx, offy)
          stays == old.stopped /\ _check_action_at_light_local(old, ls) # "proceed"
          go == IF old.stopped THEN resume(old) ELSE old
          moved == WithLocalRect(Moved(go), offx, offy)
      IN  IF stays THEN old
          ELSE IF _check_action_at_light_local(moved, ls) = "stop" THEN stop(moved)
          ELSE IF MustAvoid(moved, others) THEN stop(moved)
          ELSE IF ~moved.stopped /\ moved.speed = 0 THEN resume_speed(moved)
          ELSE moved

\* one call of Vehicle.update_in_zone; others is the zone's vehicle list
update_in_zone(v, ls, others, offx, offy) ==
    IF v.is_despawned_globally THEN v
    ELSE
      LET old == WithLocalRect(v, offx, offy)
          stays == old.stopped /\ _check_action_at_light_local(old, ls) # "proceed"
          go == IF old.stopped THEN resume(old) ELSE old
          moved == WithLocalRect(Moved(go), offx, offy)
          reverted == stop([go EXCEPT !.rect_x = old.rect_x, !.rect_y = old.rect_y])
      IN  IF stays THEN old
          ELSE IF _check_action_at_light_local(moved, ls) = "stop" THEN reverted
          ELSE IF MustAvoid(moved, others) THEN reverted
          ELSE IF ~moved.stopped /\ moved.speed = 0 THEN resume_speed(moved)
          ELSE moved

-----------------------------------------------------------------------------
(* ZoneNode *)

SeqIds(vs) == {vs[i].id : i \in 1..Len(vs)}

IndexOf(vs, id) == CHOOSE i \in 1..Len(vs) : vs[i].id = id

\* self.vehicles[v.id] = v on an insertion-ordered dict
DictPut(vs, v) ==
    IF v.id \in SeqIds(vs) THEN [vs EXCEPT ![IndexOf(vs, v.id)] = v]
    ELSE Append(vs, v)

RECURSIVE DictRemove(_, _)
DictRemove(vs, ids) ==
    IF vs = << >> THEN << >>
    ELSE IF Head(vs).id \in ids THEN DictRemove(Tail(vs), ids)
    ELSE << Head(vs) >> \o DictRemove(Tail(vs), ids)

IdWithoutZone(z, k) == << "veh", k >>

\* f"veh_{zone_id}_{uuid4().hex[:4]}", the hex digits drawn as k
NewVehicleId(z, k) == << z, k >>

SpawnOffByOne(z, vs, choice, speed, k) ==
    IF Len(vs) > max_vehicles_in_zone(z) THEN vs
    ELSE LET p == get_spawn_points_local(z)[choice]
         IN  DictPut(vs, Vehicle(NewVehicleId(z, k), Bounds(z).x + p.x, Bounds(z).y + p.y,
                                 speed, speed, p.direction, z))

SpawnIgnoringCapacity(z, vs, choice, speed, k) ==
    LET p == get_spawn_points_local(z)[choice]
    IN  DictPut(vs, Vehicle(NewVehicleId(z, k), Bounds(z).x + p.x, Bounds(z).y + p.y,
                            speed, speed, p.direction, z))

\* _spawn_new_vehicle_at_entry: the zone's vehicles after the call
_spawn_new_vehicle_at_entry(z, vs, choice, speed, k) ==
    IF Len(vs) >= max_vehicles_in_zone(z) THEN vs
    ELSE LET p == get_spawn_points_local(z)[choice]
         IN  DictPut(vs, Vehicle(NewVehicleId(z, k), Bounds(z).x + p.x, Bounds(z).y + p.y,
                                 speed, speed, p.direction, z))

\* the vehicle updates of update_tick, in list order; later vehicles see the
\* rects of the earlier ones already updated.  An update of a vehicle in
\* faults raises before it has changed the vehicle.
RECURSIVE UpdateFrom(_, _, _, _, _)
UpdateFrom(z, ls, vs, i, faults) ==
    IF i > Len(vs) THEN vs
    ELSE UpdateFrom(z, ls,
                    IF vs[i].id \in faults THEN vs
                    ELSE [vs EXCEPT ![i] = update_in_zone(vs[i], ls, vs, Bounds(z).x, Bounds(z).y)],
                    i + 1, faults)

\* the updates run on current_zone_vehicles_list, the vehicles the zone held
\* when the list was built; a vehicle inserted later is neither updated nor
\* seen by the others in this tick
UpdateListed(z, ls, vs, listed, faults) ==
    LET In(v) == v.id \in listed
        l == UpdateFrom(z, ls, SelectSeq(vs, In), 1, faults)
    IN  [i \in 1..Len(vs) |-> IF vs[i].id \in listed THEN l[IndexOf(l, vs[i].id)] ELSE vs[i]]

GatherPropagates(faults) == faults # {}

\* asyncio.gather(*vehicle_update_tasks, return_exceptions=True): an exception
\* of an update becomes a result and is passed over; the gather never raises
GatherRaises(faults) == FALSE

CenterX(v) == RCenterX(get_global_rect(v))

CenterY(v) == RCenterY(get_global_rect(v))

OutOfBounds(z, v) == ~CollidePoint(Bounds(z), CenterX(v), CenterY(v))

TargetByBoundsAlone(z, v) ==
    LET hit == {y \in Zones \ {z} : CollidePoint(Bounds(y), CenterX(v), CenterY(v))}
    IN  IF hit = {} THEN NoZone ELSE CHOOSE y \in hit : TRUE

\* _determine_target_zone: the first adjacent zone whose bounds hold the centre
_determine_target_zone(z, v) ==
    LET adj == ConfOf(z).adjacencies
        hit == {i \in 1..Len(adj) :
                  /\ adj[i] \in Zones
                  /\ CollidePoint(Bounds(adj[i]), CenterX(v), CenterY(v))}
    IN  IF hit = {} THEN NoZone
        ELSE adj[CHOOSE i \in hit : \A j \in hit : i <= j]

MigrationPayload(z, target, v) ==
    [ type |-> "vehicle_migration", id |-> v.id, current_zone |-> z, target_zone |-> target,
      vehicle_state |-> [ id |-> v.id, x |-> v.global_x, y |-> v.global_y, speed |-> v.speed,
                          direction |-> v.direction, stopped |-> v.stopped,
                          original_speed |-> v.original_speed ] ]

\* _check_and_handle_migrations_out up to its removal loop.  acc carries the
\* vehicles (despawn flags), the ids to remove, the messages published, the
\* vehicles found to have crossed into a neighbour, and whether an exception
\* left the method.  publish_ok is the outcome of publish_async.
RECURSIVE ScanFrom(_, _, _, _, _)
ScanFrom(z, i, acc, ready, publish_ok) ==
    IF i > Len(acc.vs) \/ acc.raised THEN acc
    ELSE
      LET v == acc.vs[i]
          target == _determine_target_zone(z, v)
      IN  IF v.is_despawned_globally
          THEN ScanFrom(z, i + 1, [acc EXCEPT !.remove = @ \cup {v.id}], ready, publish_ok)
          ELSE IF ~OutOfBounds(z, v)
          THEN ScanFrom(z, i + 1, acc, ready, publish_ok)
          ELSE IF target # NoZone
          THEN LET seen == [acc EXCEPT !.crossing = @ \cup {[id |-> v.id, target |-> target,
                                                             x |-> v.global_x, y |-> v.global_y]}]
               IN  IF ~HasColorAttribute(v)
                   THEN [seen EXCEPT !.raised = TRUE]
                   ELSE IF ready /\ publish_ok
                   THEN ScanFrom(z, i + 1,
                                 [seen EXCEPT !.pub = @ \cup {MigrationPayload(z, target, v)},
                                              !.remove = @ \cup {v.id}], ready, publish_ok)
                   ELSE ScanFrom(z, i + 1, [seen EXCEPT !.failed = @ \cup {v.id}], ready, publish_ok)
          ELSE ScanFrom(z, i + 1,
                        [acc EXCEPT !.vs[i].is_despawned_globally = TRUE,
                                    !.remove = @ \cup {v.id},
                                    !.despawned = @ \cup {v.id},
                                    !.gone = @ \cup {[id |-> v.id, x |-> CenterX(v),
                                                      y |-> CenterY(v)]}], ready, publish_ok)

MigrationsOutOptimistic(z, vs, ready, publish_ok) ==
    LET r == ScanFrom(z, 1, [vs |-> vs, remove |-> {}, pub |-> {}, crossing |-> {},
                             failed |-> {}, despawned |-> {}, gone |-> {}, raised |-> FALSE],
                      ready, publish_ok)
    IN  [r EXCEPT !.vs = DictRemove(r.vs, r.remove \cup {c.id : c \in r.crossing})]

\* the scan followed by the removal loop, which an exception skips
_check_and_handle_migrations_out(z, vs, ready, publish_ok) ==
    LET r == ScanFrom(z, 1, [vs |-> vs, remove |-> {}, pub |-> {}, crossing |-> {},
                             failed |-> {}, despawned |-> {}, gone |-> {}, raised |-> FALSE],
                      ready, publish_ok)
    IN  IF r.raised THEN r ELSE [r EXCEPT !.vs = DictRemove(r.vs, r.remove)]

\* the publish_state tasks the scan creates for the vehicles it despawns
DespawnNotices(despawned) == {[event_type |-> "despawned_global", id |-> id] : id \in despawned}

NoId == << >>

HandleWithoutCapacityCheck(z, vs, m) ==
    LET d == m.vehicle_state
    IN  IF d.id = NoId THEN vs
        ELSE IF d.id \in SeqIds(vs) THEN vs
        ELSE DictPut(vs, Vehicle(d.id, d.x, d.y, d.speed, d.original_speed, d.direction, z))

HandleKeepingSenderZone(z, vs, m) ==
    LET d == m.vehicle_state
    IN  IF d.id = NoId THEN vs
        ELSE IF d.id \in SeqIds(vs) THEN vs
        ELSE IF Len(vs) >= max_vehicles_in_zone(z) THEN vs
        ELSE DictPut(vs, Vehicle(d.id, d.x, d.y, d.speed, d.original_speed, d.direction,
                                 m.current_zone))

HandleWithoutPresenceCheck(z, vs, m) ==
    LET d == m.vehicle_state
    IN  IF d.id = NoId THEN vs
        ELSE IF Len(vs) >= max_vehicles_in_zone(z) THEN vs
        ELSE DictPut(vs, Vehicle(d.id, d.x, d.y, d.speed, d.original_speed, d.direction, z))

\* _handle_incoming_vehicle_migration: the zone's vehicles after the call.
\* The Vehicle is built from position, speed, original_speed and direction;
\* the snapshot's stopped flag is not passed on.
_handle_incoming_vehicle_migration(z, vs, m) ==
    LET d == m.vehicle_state
    IN  IF d.id = NoId THEN vs
        ELSE IF d.id \in SeqIds(vs) THEN vs
        ELSE IF Len(vs) >= max_vehicles_in_zone(z) THEN vs
        ELSE DictPut(vs, Vehicle(d.id, d.x, d.y, d.speed, d.original_speed, d.direction, z))

\* what the handler logs for a message
HandlerOutcome(z, vs, m) ==
    IF m.target_zone # z THEN "misrouted"
    ELSE IF m.vehicle_state.id = NoId THEN "invalid"
    ELSE IF m.vehicle_state.id \in SeqIds(vs) THEN "duplicate"
    ELSE IF Len(vs) >= max_vehicles_in_zone(z) THEN "full"
    ELSE "accepted"

OnMessageWithoutTargetCheck(z, vs, m) == _handle_incoming_vehicle_migration(z, vs, m)

\* _on_rabbitmq_message: only a message addressed to this zone is handled
_on_rabbitmq_message(z, vs, m) ==
    IF m.target_zone = z THEN _handle_incoming_vehicle_migration(z, vs, m) ELSE vs

-----------------------------------------------------------------------------
(* Initial states *)

RECURSIVE FastForward(_, _)
FastForward(ls, n) == IF n = 0 THEN ls ELSE FastForward(ZoneMapUpdate(ls), n - 1)

Ev(op, z, out, ids, crossing) ==
    [op |-> op, zone |-> z, out |-> out, ids |-> ids, crossing |-> crossing, errors |-> {},
     metrics |-> {}, drawn |-> {}, notices |-> {}, gone |-> {}]

\* the calls Vehicle.__init__ makes on the metrics client
VehicleInitMetrics(id) == {[hook |-> "vehicle_spawned", id |-> id]}

\* the attributes _spawn_new_vehicle_at_entry draws at random for the vehicle
\* it builds: the entry point, the id, the speed
SpawnDraws(z, vs) ==
    IF Len(vs) >= max_vehicles_in_zone(z) THEN {} ELSE {"spawn_choice", "id", "speed"}

\* the attributes update_tick itself draws at random when the spawn timer
\* fires: none
TimerDraws == {}

SpawnIntervalRerolled(interval) == IF interval >= 90 THEN 45 ELSE interval + 1

\* spawn_interval after the timer has fired: it is not assigned
SpawnIntervalAfterFire(interval) == interval

\* the calls the migration scan makes on the metrics client for the vehicles
\* it despawns: none
ScanMetrics(despawned) == {}

\* no start-up is being followed
BootIdle == [on |-> FALSE, file |-> "ok", map_size |-> TRUE, zones |-> << >>, phase |-> "start",
             connected |-> FALSE, zone_nodes |-> << >>, tasks |-> {}]

BenchIdle == [on |-> FALSE, a |-> TrafficLight(0, 0, 12, 36, "vertical", 100, 0),
              b |-> TrafficLight(0, 0, 36, 12, "horizontal", 100, 55), n |-> 0, offset |-> 0,
              changes |-> [a |-> 0, b |-> 0]]

\* ZoneNode.__init__ for every zone, followed by idle[z] ticks in which nothing
\* was spawned (idle[z] is below the spawn interval)
InitZones(city, idle, cycle, interval, ready) ==
    /\ city_config = city
    /\ lights = [z \in Zones |-> FastForward(initialize_map_elements(z, cycle[z]), idle[z])]
    /\ vehicles = [z \in Zones |-> << >>]
    /\ spawn_timer = idle
    /\ spawn_interval = interval
    /\ manual_spawn_pending = [z \in Zones |-> FALSE]
    /\ is_running = [z \in Zones |-> TRUE]
    /\ pc = [z \in Zones |-> "sleep"]
    /\ ticks = [z \in Zones |-> 0]
    /\ stop_called = [z \in Zones |-> FALSE]
    /\ broker_ready = ready
    /\ published = {}
    /\ gui_running = TRUE
    /\ current_zone_vehicles_list = [z \in Zones |-> {}]
    /\ orch = "gui"

ZoneIdsOf(city) == {city[i].id : i \in 1..Len(city)}

\* the largest number of idle ticks after which no automatic spawn was due
IdleBeforeSpawn == (CHOOSE n \in SpawnIntervals : \A m \in SpawnIntervals : n <= m) - 1

\* the first zone starts fresh; every other zone is one tick before its
\* first automatic spawn
IdleStaggered(city) ==
    {[z \in ZoneIdsOf(city) |-> IF z = city[1].id THEN 0 ELSE IdleBeforeSpawn]}

IdleAny(city) == [ZoneIdsOf(city) -> {0, IdleBeforeSpawn}]

InitCity(city, idles, ready) ==
    /\ \E idle \in idles, cycle \in [ZoneIdsOf(city) -> CycleTimes],
          interval \in [ZoneIdsOf(city) -> SpawnIntervals] :
          InitZones(city, idle, cycle, interval, ready)
    /\ ev = Ev("init", NoZone, "none", {}, {})
    /\ bench = BenchIdle
    /\ boot = BootIdle

Init == InitCity(CityTwo, IdleStaggered(CityTwo), TRUE)

InitSolo == \E city \in {CityOne, CityTight} : InitCity(city, IdleAny(city), TRUE)

\* connect_async failed at start-up and the orchestrator went on
InitOffline == InitCity(CityTwo, IdleStaggered(CityTwo), FALSE)

-----------------------------------------------------------------------------
(* The zone task: while is_running: update_tick(); sleep *)

\* the speeds random.uniform draws in this run: both in a city that is one
\* closed zone, the fast one where vehicles can come from or go to a neighbour
SpeedsDrawn ==
    IF city_config \in {CityOne, CityTight, CityTimer} THEN SpawnSpeeds ELSE FastSpawnSpeeds

LoopContinuesAlways(z) == TRUE

\* the test of the zone task's loop: while node.is_running
LoopContinues(z) == is_running[z]

\* the ticks of a zone that are followed
TickLimit ==
    IF city_config = CityTimer THEN MaxTimerTicks
    ELSE IF city_config = CityLane THEN MaxLaneTicks
    ELSE MaxTicks

NotRunningNever(z) == FALSE

\* the test of update_tick's first line: if not self.is_running: return
NotRunning(z) == ~is_running[z]

\* update_tick past its first line, up to its first suspension: the pending
\* manual spawn
UpdateTickEnters(z) ==
    /\ ticks[z] < TickLimit
    /\ ticks' = [ticks EXCEPT ![z] = @ + 1]
    /\ pc' = [pc EXCEPT ![z] = "lights"]
    /\ manual_spawn_pending' = [manual_spawn_pending EXCEPT ![z] = FALSE]
    /\ IF manual_spawn_pending[z]
       THEN \E choice \in 1..4, speed \in SpeedsDrawn, k \in 1..MaxIds :
              /\ vehicles' = [vehicles EXCEPT
                                ![z] = _spawn_new_vehicle_at_entry(z, @, choice, speed, k)]
              /\ ev' = [Ev("manual_spawn", z,
                           IF Len(vehicles[z]) >= max_vehicles_in_zone(z) THEN "full" ELSE "spawned",
                           {NewVehicleId(z, k)}, {})
                        EXCEPT !.metrics = IF Len(vehicles[z]) >= max_vehicles_in_zone(z) THEN {}
                                           ELSE VehicleInitMetrics(NewVehicleId(z, k)),
                               !.drawn = SpawnDraws(z, vehicles[z])]
       ELSE /\ vehicles' = vehicles
            /\ ev' = Ev("tick_begin", z, "none", {}, {})
    /\ UNCHANGED << city_config, lights, spawn_timer, spawn_interval, is_running,
                    stop_called, broker_ready, published, gui_running,
                    current_zone_vehicles_list, orch, bench, boot >>

\* the zone task finds is_running true and calls update_tick
TickBegin(z) ==
    /\ pc[z] = "sleep"
    /\ LoopContinues(z)
    /\ UpdateTickEnters(z)

LightsAfterTickAll(z, all) == [y \in DOMAIN all |-> ZoneMapUpdate(all[y])]

\* self.zone_map.update(): the zone's own map, and no other zone's
LightsAfterTick(z, all) == [all EXCEPT ![z] = ZoneMapUpdate(@)]

ListedBeforeSpawn(vs) == {vs[i].id : i \in {j \in 1..(Len(vs) - 1) : ~vs[j].is_despawned_globally}}

\* the ids update_tick lists for the vehicle updates
ListedIds(vs) == {vs[i].id : i \in {j \in 1..Len(vs) : ~vs[j].is_despawned_globally}}

\* after the first suspension: zone_map.update(), the automatic spawn timer,
\* and the list of vehicles to update.  With vehicles to update the tick
\* suspends again in their gather; with none it goes straight on to the
\* migration scan, which finds no vehicle, and the tick is over.
TickLights(z) ==
    /\ pc[z] = "lights"
    /\ lights' = LightsAfterTick(z, lights)
    /\ IF spawn_timer[z] + 1 >= spawn_interval[z]
       THEN /\ spawn_timer' = [spawn_timer EXCEPT ![z] = 0]
            /\ \E choice \in 1..4, speed \in SpeedsDrawn, k \in 1..MaxIds :
                 /\ vehicles' = [vehicles EXCEPT
                                   ![z] = _spawn_new_vehicle_at_entry(z, @, choice, speed, k)]
                 /\ ev' = [Ev("auto_spawn", z,
                              IF Len(vehicles[z]) >= max_vehicles_in_zone(z) THEN "full" ELSE "spawned",
                              {NewVehicleId(z, k)}, {})
                           EXCEPT !.metrics = IF Len(vehicles[z]) >= max_vehicles_in_zone(z) THEN {}
                                              ELSE VehicleInitMetrics(NewVehicleId(z, k)),
                                  !.drawn = TimerDraws \cup SpawnDraws(z, vehicles[z])]
            /\ spawn_interval' = [spawn_interval EXCEPT ![z] = SpawnIntervalAfterFire(@)]
       ELSE /\ spawn_timer' = [spawn_timer EXCEPT ![z] = @ + 1]
            /\ spawn_interval' = spawn_interval
            /\ vehicles' = vehicles
            /\ ev' = Ev("lights", z, "none", {}, {})
    /\ pc' = [pc EXCEPT ![z] = IF ListedIds(vehicles'[z]) = {} THEN "sleep" ELSE "vehicles"]
    /\ current_zone_vehicles_list' = [current_zone_vehicles_list EXCEPT ![z] = ListedIds(vehicles'[z])]
    /\ UNCHANGED << city_config, manual_spawn_pending, is_running, ticks, stop_called,
                    broker_ready, published, gui_running, orch, bench, boot >>

\* after the second suspension: the vehicle updates have run (the updates
\* of the vehicles in faults raised) and the migration scan follows.  An
\* exception that leaves update_tick ends the zone task, whose finally
\* clause calls node.stop().  The steps other tasks take between two
\* vehicle updates touch nothing an update reads, so the updates and the
\* scan are taken as one step.
ScanOutcome(z, faults, updated, aborted, r) ==
    /\ vehicles' = [vehicles EXCEPT ![z] = IF aborted THEN updated ELSE r.vs]
    /\ published' = IF aborted THEN published ELSE published \cup r.pub
    /\ pc' = [pc EXCEPT ![z] = IF aborted \/ r.raised THEN "ended" ELSE "sleep"]
    /\ is_running' = [is_running EXCEPT ![z] = IF aborted \/ r.raised THEN FALSE ELSE @]
    /\ ev' = IF aborted
             THEN [Ev("updates", z, "raised", {}, {}) EXCEPT !.errors = faults]
             ELSE [Ev("scan", z, IF r.raised THEN "raised" ELSE "done",
                      r.despawned, r.crossing) EXCEPT !.errors = faults,
                                                      !.metrics = ScanMetrics(r.despawned),
                                                      !.notices = DespawnNotices(r.despawned),
                                                      !.gone = r.gone]

UpdatesOutcome(z, publish_ok, faults, updated) ==
    ScanOutcome(z, faults, updated, GatherRaises(faults),
                _check_and_handle_migrations_out(z, updated, broker_ready, publish_ok))

TickVehiclesWith(z, publish_ok, faults) ==
    /\ pc[z] = "vehicles"
    /\ faults \subseteq current_zone_vehicles_list[z]
    /\ UpdatesOutcome(z, publish_ok, faults,
                      UpdateListed(z, lights[z], vehicles[z], current_zone_vehicles_list[z], faults))
    /\ current_zone_vehicles_list' = [current_zone_vehicles_list EXCEPT ![z] = {}]
    /\ UNCHANGED << city_config, lights, spawn_timer, spawn_interval, manual_spawn_pending, ticks,
                    stop_called, broker_ready, gui_running, orch, bench, boot >>

\* a tick in which no vehicle update raises
TickVehicles(z) == \E publish_ok \in BOOLEAN : TickVehiclesWith(z, publish_ok, {})

\* the loop test finds is_running false
LoopExit(z) ==
    /\ pc[z] = "sleep"
    /\ ~LoopContinues(z)
    /\ pc' = [pc EXCEPT ![z] = "ended"]
    /\ ev' = Ev("loop_exit", z, "none", {}, {})
    /\ UNCHANGED << city_config, lights, vehicles, spawn_timer, spawn_interval, manual_spawn_pending,
                    is_running, ticks, stop_called, broker_ready, published, gui_running,
                    current_zone_vehicles_list, orch, bench, boot >>

-----------------------------------------------------------------------------
(* The GUI task and the orchestrator *)

TriggerSpawnsAtOnce ==
    LET z == city_config[1].id
    IN  /\ gui_running
        /\ \E choice \in 1..4, speed \in SpeedsDrawn, k \in 1..MaxIds :
              vehicles' = [vehicles EXCEPT ![z] = _spawn_new_vehicle_at_entry(z, @, choice, speed, k)]
        /\ ev' = Ev("trigger", z,
                    IF Len(vehicles[z]) < max_vehicles_in_zone(z) THEN "accepted" ELSE "full", {}, {})
        /\ UNCHANGED << city_config, lights, manual_spawn_pending, spawn_timer, spawn_interval,
                        is_running, pc, ticks, stop_called, broker_ready, published, gui_running,
                        current_zone_vehicles_list, orch, bench, boot >>

\* SPACE in the simulation view: trigger_manual_spawn on the first zone
trigger_manual_spawn ==
    LET z == city_config[1].id
    IN  /\ gui_running
        /\ IF Len(vehicles[z]) < max_vehicles_in_zone(z)
           THEN /\ manual_spawn_pending' = [manual_spawn_pending EXCEPT ![z] = TRUE]
                /\ ev' = Ev("trigger", z, "accepted", {}, {})
           ELSE /\ manual_spawn_pending' = manual_spawn_pending
                /\ ev' = Ev("trigger", z, "full", {}, {})
        /\ UNCHANGED << city_config, lights,vehicles, spawn_timer, spawn_interval, is_running, pc,
                        ticks, stop_called, broker_ready, published, gui_running,
                        current_zone_vehicles_list, orch, bench, boot >>

\* the zone tasks that have not finished
Pending == {z \in Zones : pc[z] # "ended"}

\* the GUI loop ends and _shutdown calls stop() on every zone, then waits
\* for the zone tasks in asyncio.wait(timeout=5.0)
_shutdown ==
    /\ gui_running
    /\ gui_running' = FALSE
    /\ is_running' = [z \in Zones |-> FALSE]
    /\ stop_called' = [z \in Zones |-> TRUE]
    /\ orch' = "waiting"
    /\ ev' = Ev("shutdown", NoZone, "none", {}, {})
    /\ UNCHANGED << city_config, lights, vehicles, spawn_timer, spawn_interval, manual_spawn_pending,
                    pc, ticks, broker_ready, published, current_zone_vehicles_list, bench, boot >>

ShutdownJoinWithoutWaiting ==
    /\ orch = "waiting"
    /\ orch' = "closing"
    /\ broker_ready' = FALSE
    /\ ev' = Ev("join", NoZone, "none", {}, {})
    /\ UNCHANGED << city_config, lights, vehicles, spawn_timer, spawn_interval, manual_spawn_pending,
                    is_running, pc, ticks, stop_called, published, gui_running,
                    current_zone_vehicles_list, bench, boot >>

\* the wait returns with every zone task done; the broker connection is
\* closed, and _shutdown is suspended in disconnect_async
ShutdownJoin ==
    /\ orch = "waiting"
    /\ Pending = {}
    /\ orch' = "closing"
    /\ broker_ready' = FALSE
    /\ ev' = Ev("join", NoZone, "none", {}, {})
    /\ UNCHANGED << city_config, lights, vehicles, spawn_timer, spawn_interval, manual_spawn_pending,
                    is_running, pc, ticks, stop_called, published, gui_running,
                    current_zone_vehicles_list, bench, boot >>

ShutdownTimeoutWithoutCancel ==
    /\ orch = "waiting"
    /\ Pending # {}
    /\ orch' = "closing"
    /\ broker_ready' = FALSE
    /\ ev' = Ev("cancel", NoZone, "none", {}, {})
    /\ UNCHANGED << city_config, lights, vehicles, spawn_timer, spawn_interval, manual_spawn_pending,
                    is_running, pc, ticks, stop_called, published, gui_running,
                    current_zone_vehicles_list, bench, boot >>

\* the wait times out: every pending task is cancelled and gathered.  The
\* CancelledError reaches the zone task where it is suspended and is caught
\* there; its finally clause calls node.stop().
ShutdownTimeout ==
    /\ orch = "waiting"
    /\ Pending # {}
    /\ orch' = "closing"
    /\ pc' = [z \in Zones |-> "ended"]
    /\ is_running' = [z \in Zones |-> FALSE]
    /\ current_zone_vehicles_list' = [z \in Zones |-> {}]
    /\ broker_ready' = FALSE
    /\ ev' = Ev("cancel", NoZone, "none", {}, {})
    /\ UNCHANGED << city_config, lights, vehicles, spawn_timer, spawn_interval, manual_spawn_pending,
                    ticks, stop_called, published, gui_running, bench, boot >>

\* with the broker connection closed, _shutdown closes the metrics client,
\* which saves the final metrics, and is over
ShutdownCloseMetrics ==
    /\ orch = "closing"
    /\ orch' = "done"
    /\ ev' = Ev("metrics_close", NoZone, "none", {}, {})
    /\ UNCHANGED << city_config, lights, vehicles, spawn_timer, spawn_interval, manual_spawn_pending,
                    is_running, pc, ticks, stop_called, broker_ready, published, gui_running,
                    current_zone_vehicles_list, bench, boot >>

Next ==
    \/ \E z \in Zones : TickBegin(z)
    \/ \E z \in Zones : TickLights(z)
    \/ \E z \in Zones : TickVehicles(z)
    \/ \E z \in Zones : LoopExit(z)
    \/ trigger_manual_spawn
    \/ _shutdown
    \/ ShutdownJoin
    \/ ShutdownTimeout
    \/ ShutdownCloseMetrics

Spec == Init /\ [][Next]_vars

\* update_tick called on a zone that runs no tick at the moment, whatever its
\* flag says: with the flag false the call returns from its first line
update_tick(z) ==
    /\ pc[z] \in {"sleep", "ended"}
    /\ IF NotRunning(z)
       THEN /\ ev' = Ev("update_tick", z, "returned", {}, {})
            /\ UNCHANGED << city_config, lights, vehicles, spawn_timer, spawn_interval,
                            manual_spawn_pending, is_running, pc, ticks, stop_called,
                            broker_ready, published, gui_running,
                            current_zone_vehicles_list, orch, bench, boot >>
       ELSE UpdateTickEnters(z)

NextDirect ==
    \/ \E z \in Zones : update_tick(z)
    \/ \E z \in Zones : TickLights(z)
    \/ \E z \in Zones : TickVehicles(z)
    \/ \E z \in Zones : LoopExit(z)
    \/ trigger_manual_spawn
    \/ _shutdown
    \/ ShutdownJoin
    \/ ShutdownTimeout
    \/ ShutdownCloseMetrics

SpecDirect == InitSolo /\ [][NextDirect]_vars

SpecSolo == InitSolo /\ [][Next]_vars

\* a tick in which the update of at most one of the listed vehicles raises
TickVehiclesFaulty(z) ==
    \E publish_ok \in BOOLEAN, faults \in SUBSET current_zone_vehicles_list[z] :
        /\ Cardinality(faults) <= 1
        /\ TickVehiclesWith(z, publish_ok, faults)

NextFaulty ==
    \/ \E z \in Zones : TickBegin(z)
    \/ \E z \in Zones : TickLights(z)
    \/ \E z \in Zones : TickVehiclesFaulty(z)
    \/ \E z \in Zones : LoopExit(z)
    \/ trigger_manual_spawn
    \/ _shutdown
    \/ ShutdownJoin
    \/ ShutdownTimeout
    \/ ShutdownCloseMetrics

\* one zone with room for two vehicles, whose updates may raise
SpecFaulty == InitCity(CityHub, IdleStaggered(CityHub), TRUE) /\ [][NextFaulty]_vars

\* a run in which SPACE is never pressed
NextQuiet ==
    \/ \E z \in Zones : TickBegin(z)
    \/ \E z \in Zones : TickLights(z)
    \/ \E z \in Zones : TickVehicles(z)
    \/ \E z \in Zones : LoopExit(z)
    \/ _shutdown
    \/ ShutdownJoin
    \/ ShutdownTimeout
    \/ ShutdownCloseMetrics

\* a city whose adjacency lists and bounds disagree
SpecGap ==
    InitCity(CityGap, {[z \in ZoneIdsOf(CityGap) |-> IdleBeforeSpawn]}, TRUE) /\ [][NextQuiet]_vars

\* both zones fresh: the vehicles of the run are those spawned on SPACE
SpecPair == InitCity(CityPair, {[z \in ZoneIdsOf(CityPair) |-> 0]}, TRUE) /\ [][Next]_vars

\* the run of one zone while the window stays open: its ticks and SPACE
NextLane ==
    \/ \E z \in Zones : TickBegin(z)
    \/ \E z \in Zones : TickLights(z)
    \/ \E z \in Zones : TickVehicles(z)
    \/ trigger_manual_spawn

\* one zone one tick before its first automatic spawn, with room for a second
\* vehicle spawned on SPACE
SpecLane ==
    InitCity(CityLane, {[z \in ZoneIdsOf(CityLane) |-> IdleBeforeSpawn]}, TRUE) /\ [][NextLane]_vars

\* one zone one tick before its first automatic spawn, followed until the
\* timer has fired again and the lights have changed
SpecTimer ==
    InitCity(CityTimer, {[z \in ZoneIdsOf(CityTimer) |-> IdleBeforeSpawn]}, TRUE) /\ [][NextQuiet]_vars

\* spawn intervals whose second firing comes a few ticks before the
\* east-west lights turn yellow
AmberIntervals == {51, 52, 53}

\* one zone whose spawn timer fires a second time shortly before its
\* east-west lights leave green, followed through the yellow and into the red
SpecAmber ==
    /\ \E interval \in AmberIntervals :
          InitZones(CityTimer, [z \in ZoneIdsOf(CityTimer) |-> IdleBeforeSpawn],
                    [z \in ZoneIdsOf(CityTimer) |-> 240],
                    [z \in ZoneIdsOf(CityTimer) |-> interval], TRUE)
    /\ ev = Ev("init", NoZone, "none", {}, {})
    /\ bench = BenchIdle
    /\ boot = BootIdle
    /\ [][NextQuiet]_vars

\* asyncio.wait(timeout=5.0) returns: when every zone task is done, or when
\* its timeout expires
SpecFair ==
    /\ InitCity(CityTwo, IdleAny(CityTwo), TRUE)
    /\ [][NextQuiet]_vars
    /\ WF_vars(ShutdownJoin)
    /\ WF_vars(ShutdownTimeout)
    /\ WF_vars(ShutdownCloseMetrics)

SpecOffline == InitOffline /\ [][Next]_vars

-----------------------------------------------------------------------------
(* Inbound migration messages.  The zone's queue is durable and delivery is
   at least once, so a message may arrive at any suspension point and more
   than once. *)

\* where a migrated vehicle enters the zone: from the west on the eastbound
\* lane, from the north on the southbound lane
EntryPoints == { [x |-> -20, y |-> 87, direction |-> "right"],
                 [x |-> 87, y |-> -10, direction |-> "down"] }

\* a moving vehicle, and one that was waiting when its snapshot was taken
SnapshotMotion == { [speed |-> 3, stopped |-> FALSE], [speed |-> 0, stopped |-> TRUE] }

Snapshot(id, e, mo) ==
    [ id |-> id, x |-> e.x, y |-> e.y, speed |-> mo.speed, direction |-> e.direction,
      stopped |-> mo.stopped, original_speed |-> 3 ]

InboundMessages ==
    { [ type |-> "vehicle_migration", id |-> id, current_zone |-> "B", target_zone |-> "A",
        vehicle_state |-> Snapshot(id, e, mo) ] :
        id \in {NewVehicleId("B", 1)}, e \in EntryPoints, mo \in SnapshotMotion }
    \cup { [ type |-> "vehicle_migration", id |-> id, current_zone |-> "B", target_zone |-> "A",
             vehicle_state |-> Snapshot(id, e, mo) ] :
             id \in {NoId}, e \in {[x |-> -20, y |-> 87, direction |-> "right"]},
             mo \in {[speed |-> 3, stopped |-> FALSE]} }
    \cup { [ type |-> "vehicle_migration", id |-> id, current_zone |-> "A", target_zone |-> "B",
             vehicle_state |-> Snapshot(id, e, mo) ] :
             id \in {NewVehicleId("A", 2)}, e \in {[x |-> -20, y |-> 87, direction |-> "right"]},
             mo \in {[speed |-> 3, stopped |-> FALSE]} }

\* the consumer callback of zone z runs for message m
Deliver(z, m) ==
    /\ broker_ready
    /\ vehicles' = [vehicles EXCEPT ![z] = _on_rabbitmq_message(z, @, m)]
    /\ ev' = [Ev("deliver", z, HandlerOutcome(z, vehicles[z], m), {m.vehicle_state.id}, {})
              EXCEPT !.metrics = IF HandlerOutcome(z, vehicles[z], m) = "accepted"
                                 THEN VehicleInitMetrics(m.vehicle_state.id) ELSE {}]
    /\ UNCHANGED << city_config, lights, spawn_timer, spawn_interval, manual_spawn_pending,
                    is_running, pc, ticks, stop_called, broker_ready, published, gui_running,
                    current_zone_vehicles_list, orch, bench, boot >>

InitBroker == InitCity(CityHub, IdleStaggered(CityHub), TRUE)

NextBroker ==
    \/ Next
    \/ \E z \in Zones, m \in InboundMessages : Deliver(z, m)

SpecBroker == InitBroker /\ [][NextBroker]_vars

-----------------------------------------------------------------------------
(* Light bench: two lights of one cycle_time, advanced once per tick together *)

InitBench ==
    /\ InitZones(CityOne, [z \in ZoneIdsOf(CityOne) |-> 0],
                 [z \in ZoneIdsOf(CityOne) |-> 240], [z \in ZoneIdsOf(CityOne) |-> 45], TRUE)
    /\ ev = Ev("init", NoZone, "none", {}, {})
    /\ \E c \in BenchCycleTimes, o \in BenchOffsets :
         bench = [on |-> TRUE, a |-> TrafficLight(0, 0, 12, 36, "vertical", c, o),
                  b |-> TrafficLight(0, 0, 36, 12, "horizontal", c, 55), n |-> 0, offset |-> o,
                  changes |-> [a |-> 0, b |-> 0]]
    /\ boot = BootIdle

BenchStep ==
    /\ bench.on
    /\ bench.n < MaxBenchTicks
    /\ bench' = [bench EXCEPT !.a = update_async(@), !.b = update_async(@), !.n = @ + 1,
                               !.changes.a = @ + ChangeNotices(bench.a),
                               !.changes.b = @ + ChangeNotices(bench.b)]
    /\ UNCHANGED << zoneVars, ev, boot >>

NextBench == BenchStep

SpecLight == InitBench /\ [][NextBench]_vars

-----------------------------------------------------------------------------
(* Start-up: SimulationOrchestrator.setup() and run(), for a configuration
   file whose zone entries may lack keys *)

\* a zone entry of the file: whether it has "id", and whether its "bounds"
\* is there with x, y, width and height, is there without one of them, or is absent
ZoneEntries ==
    { [has_id |-> TRUE, bounds |-> "complete"], [has_id |-> FALSE, bounds |-> "complete"],
      [has_id |-> TRUE, bounds |-> "absent"], [has_id |-> TRUE, bounds |-> "partial"] }

ZoneLists == UNION {[1..n -> ZoneEntries] : n \in 0..MaxZoneEntries}

InitBoot ==
    /\ InitZones(CityOne, [z \in ZoneIdsOf(CityOne) |-> 0],
                 [z \in ZoneIdsOf(CityOne) |-> 240], [z \in ZoneIdsOf(CityOne) |-> 45], TRUE)
    /\ ev = Ev("init", NoZone, "none", {}, {})
    /\ bench = BenchIdle
    /\ \E file \in {"missing", "undecodable", "ok"}, map_size \in BOOLEAN, zones \in ZoneLists :
         /\ file # "ok" => (zones = << >> /\ map_size)
         /\ boot = [BootIdle EXCEPT !.on = TRUE, !.file = file, !.map_size = map_size,
                                    !.zones = zones]

\* _load_config: False when the file is missing or cannot be decoded
_load_config(b) ==
    IF b.file = "ok" THEN [b EXCEPT !.phase = "loaded"] ELSE [b EXCEPT !.phase = "failed"]

\* _initialize_rabbitmq returns True whether or not connect_async succeeded
_initialize_rabbitmq(b, connect_ok) == [b EXCEPT !.phase = "broker", !.connected = connect_ok]

\* _initialize_metrics and _initialize_gui; MainGUI reads global_map_width
\* and global_map_height and raises KeyError without them
_initialize_gui(b) ==
    IF b.map_size THEN [b EXCEPT !.phase = "gui"] ELSE [b EXCEPT !.phase = "raised"]

\* the entry passes all(k in zone_conf for k in ["id", "bounds"])
HasIdAndBounds(e) == e.has_id /\ e.bounds # "absent"

\* the loop of _initialize_zone_nodes from entry i on: an entry without id
\* or bounds is skipped with a warning; ZoneNode.__init__ raises KeyError on
\* bounds that lack a coordinate
RECURSIVE BuildNodes(_, _, _)
BuildNodes(zones, i, nodes) ==
    IF i > Len(zones) THEN [nodes |-> nodes, raised |-> FALSE]
    ELSE IF ~HasIdAndBounds(zones[i]) THEN BuildNodes(zones, i + 1, nodes)
    ELSE IF zones[i].bounds = "partial" THEN [nodes |-> nodes, raised |-> TRUE]
    ELSE BuildNodes(zones, i + 1, Append(nodes, i))

InitializeZoneNodesStrict(b) ==
    LET r == BuildNodes(b.zones, 1, << >>)
        strict == \A i \in 1..Len(b.zones) : b.zones[i] = [has_id |-> TRUE, bounds |-> "complete"]
    IN  [b EXCEPT !.zone_nodes = IF strict THEN r.nodes ELSE << >>,
                  !.phase = IF r.raised THEN "raised"
                            ELSE IF r.nodes = << >> \/ ~strict THEN "failed" ELSE "ready"]

\* _initialize_zone_nodes: False only when no node was built
_initialize_zone_nodes(b) ==
    LET r == BuildNodes(b.zones, 1, << >>)
    IN  [b EXCEPT !.zone_nodes = r.nodes,
                  !.phase = IF r.raised THEN "raised"
                            ELSE IF r.nodes = << >> THEN "failed" ELSE "ready"]

\* setup(), one step per component
SetupStep ==
    /\ boot.on
    /\ \/ boot.phase = "start" /\ boot' = _load_config(boot)
       \/ boot.phase = "loaded" /\ \E connect_ok \in BOOLEAN : boot' = _initialize_rabbitmq(boot, connect_ok)
       \/ boot.phase = "broker" /\ boot' = _initialize_gui(boot)
       \/ boot.phase = "gui" /\ boot' = _initialize_zone_nodes(boot)
    /\ UNCHANGED << zoneVars, ev, bench >>

\* run() after setup() returned True: one task per zone node
RunStep ==
    /\ boot.on
    /\ boot.phase = "ready"
    /\ boot.zone_nodes # << >>
    /\ boot' = [boot EXCEPT !.phase = "running",
                            !.tasks = {boot.zone_nodes[i] : i \in 1..Len(boot.zone_nodes)}]
    /\ UNCHANGED << zoneVars, ev, bench >>

NextBoot ==
    \/ SetupStep
    \/ RunStep

SpecBoot == InitBoot /\ [][NextBoot]_vars

(* C21 as stated: with a missing file or a malformed zone entry, setup() fails
   and no zone task is started *)
C21_ConfigErrorFatal ==
    (/\ boot.on
     /\ \/ boot.file # "ok"
        \/ \E i \in 1..Len(boot.zones) : boot.zones[i] # [has_id |-> TRUE, bounds |-> "complete"])
      => (boot.tasks = {} /\ boot.phase \notin {"ready", "running"})

(* C21: setup() fails, and no zone task is ever started, when the file is
   missing or undecodable, when the map size is missing, when an entry that
   has id and bounds lacks a coordinate in its bounds, or when no entry has
   both id and bounds.  Otherwise an entry without id or bounds is skipped
   and a task is started for every other entry *)
C21_FatalOrSkipped ==
    boot.on =>
      LET usable == {i \in 1..Len(boot.zones) : HasIdAndBounds(boot.zones[i])}
          broken == \E i \in usable : boot.zones[i].bounds = "partial"
          fatal == boot.file # "ok" \/ ~boot.map_size \/ broken \/ usable = {}
      IN  /\ fatal => (boot.tasks = {} /\ boot.phase \notin {"ready", "running"})
          /\ (~fatal /\ boot.phase \in {"failed", "raised"}) => FALSE
          /\ boot.phase = "running" => boot.tasks = usable

\* a file with a good entry, an entry without id and an entry without
\* bounds: one task runs
C21_Witness ==
    /\ boot.on
    /\ boot.phase = "running"
    /\ Cardinality(boot.tasks) = 1
    /\ \E i, j \in 1..Len(boot.zones) : ~boot.zones[i].has_id /\ boot.zones[j].bounds = "absent"

-----------------------------------------------------------------------------
(* C8: after N calls of update_async the state of a light is the direct
   formula applied to (initial phase + N) mod cycle_time, its state is
   _get_state_at_time(current_cycle_time) and its phase stays inside the cycle *)
C8_LightDeterminism ==
    bench.on =>
      LET l == bench.a
          direct == (InitialPhase(l.cycle_time, bench.offset) + bench.n) % l.cycle_time
      IN  /\ l.current_cycle_time = direct
          /\ l.state = (IF direct < (45 * l.cycle_time) \div 100 THEN "green"
                        ELSE IF direct < ((45 * l.cycle_time) \div 100) + ((10 * l.cycle_time) \div 100)
                             THEN "yellow" ELSE "red")
          /\ 0 <= l.current_cycle_time /\ l.current_cycle_time < l.cycle_time

\* a light that wrapped around its cycle and changed state on the way
C8_Witness ==
    /\ bench.on
    /\ bench.offset = 55
    /\ bench.n > bench.a.cycle_time
    /\ bench.a.state = "yellow"

(* C9: two lights of one cycle_time created with offset factors 0.0 and 0.55
   and advanced together are never both green, for every cycle_time a zone
   can draw (240..360) *)
C9_PhaseExclusivity ==
    (bench.on /\ bench.offset = 0 /\ bench.a.cycle_time \in 240..360)
      => ~(bench.a.state = "green" /\ bench.b.state = "green")

\* the crossing light is green after the first one went through green
C9_Witness ==
    /\ bench.on /\ bench.offset = 0 /\ bench.a.cycle_time \in 240..360
    /\ bench.n > 0
    /\ bench.b.state = "green"
    /\ bench.a.state # "green"

(* C10: a light of cycle_time 100 is green exactly at phases 0..44, yellow
   exactly at phases 45..54 and red exactly at phases 55..99 *)
C10_Cycle100 ==
    (bench.on /\ bench.a.cycle_time = 100) =>
      LET t == bench.a.current_cycle_time
      IN  /\ (bench.a.state = "green") = (t \in 0..44)
          /\ (bench.a.state = "yellow") = (t \in 45..54)
          /\ (bench.a.state = "red") = (t \in 55..99)

\* the 100-tick light at its last yellow phase after a full cycle
C10_Witness ==
    /\ bench.on /\ bench.a.cycle_time = 100
    /\ bench.n >= 100
    /\ bench.a.current_cycle_time = 54
    /\ bench.a.state = "yellow"

-----------------------------------------------------------------------------
(* Zone claims *)

HoldsId(z, id) == id \in SeqIds(vehicles[z])

\* the step in which zone z ran the updates of its listed vehicles and the scan
UpdatesRan(z) == pc[z] = "vehicles" /\ ev'.op = "scan" /\ ev'.zone = z

PublishedFor(c) ==
    \E m \in published :
        /\ m.id = c.id /\ m.target_zone = c.target
        /\ m.vehicle_state.x = c.x /\ m.vehicle_state.y = c.y

(* C1: a vehicle id is in the vehicle set of at most one zone in every
   reachable state, whatever the interleaving of the zones' tick segments *)
C1_OneZonePerVehicle ==
    \A a \in Zones, b \in Zones :
        a # b => SeqIds(vehicles[a]) \cap SeqIds(vehicles[b]) = {}

\* a zone has just found a vehicle of its own inside its neighbour while the
\* neighbour holds a vehicle too
C1_Witness ==
    /\ ev.op = "scan"
    /\ \E c \in ev.crossing : HoldsId(ev.zone, c.id) /\ vehicles[c.target] # << >>

(* C2: when a scan finds a vehicle that left the zone into an adjacent zone,
   it publishes a migration message for it, routed to that zone and carrying
   the vehicle's snapshot, and removes the vehicle from the zone *)
C2_MigrationPublished ==
    (ev.op = "scan" /\ broker_ready) =>
        \A c \in ev.crossing : PublishedFor(c) /\ ~HoldsId(ev.zone, c.id)

(* C3: a delivery that finds the vehicle id already in the zone changes
   nothing, and after any delivery that was addressed to the zone and found
   room or the id present, the zone holds exactly one vehicle with that id *)
C3_DuplicateDeliveryIgnored ==
    [][ ev'.op = "deliver" =>
          /\ (ev'.ids \subseteq SeqIds(vehicles[ev'.zone]) => vehicles' = vehicles)
          /\ (ev'.out \in {"duplicate", "accepted"} =>
                \A id \in ev'.ids :
                    Cardinality({i \in 1..Len(vehicles'[ev'.zone]) :
                                   vehicles'[ev'.zone][i].id = id}) = 1) ]_vars

\* the second delivery of a message whose vehicle has moved on since the first
C3_Witness ==
    /\ ev.op = "deliver"
    /\ ev.out = "duplicate"
    /\ ev.ids = {NewVehicleId("B", 1)}
    /\ \E i \in 1..Len(vehicles[ev.zone]) :
          /\ vehicles[ev.zone][i].id = NewVehicleId("B", 1)
          /\ vehicles[ev.zone][i].global_x > -20

(* C4: a zone task stays in its loop, running, until stop() is called from
   outside; no tick ends the loop by itself *)
C4_LoopRunsUntilStop ==
    \A z \in Zones : ~stop_called[z] => (is_running[z] /\ pc[z] # "ended")

(* C5: after every update_in_zone, of a spawned vehicle or of one rebuilt from
   a migration message, the vehicle is stopped exactly when its speed is 0 *)
C5_StoppedIffZeroSpeed ==
    [][ \A z \in Zones :
          UpdatesRan(z) =>
            \A j \in 1..Len(vehicles'[z]) :
                vehicles'[z][j].id \in current_zone_vehicles_list[z]
                  => (vehicles'[z][j].stopped <=> (vehicles'[z][j].speed = 0)) ]_vars

\* a rebuilt vehicle that its update stopped, next to a spawned one that moves
C5_Witness ==
    /\ ev.op = "scan"
    /\ \E i, j \in 1..Len(vehicles[ev.zone]) :
          /\ vehicles[ev.zone][i].id = NewVehicleId("B", 1)
          /\ vehicles[ev.zone][i].stopped
          /\ vehicles[ev.zone][j].id # NewVehicleId("B", 1)
          /\ vehicles[ev.zone][j].speed > 0

(* C6 as stated: a vehicle whose migration message was not published has
   already been removed from the sending zone *)
C6_LostOnFailedPublish ==
    ev.op = "scan" =>
        \A c \in ev.crossing : ~PublishedFor(c) => ~HoldsId(ev.zone, c.id)

(* C6 amended: a vehicle whose migration message was not published is still
   in the sending zone's vehicle set *)
C6_RetainedOnFailedPublish ==
    ev.op = "scan" =>
        \A c \in ev.crossing : ~PublishedFor(c) => HoldsId(ev.zone, c.id)

\* a scan with the broker unavailable found a vehicle inside the neighbour
C6_Witness ==
    /\ ev.op = "scan"
    /\ ~broker_ready
    /\ ev.crossing # {}
    /\ published = {}

(* C7: no step brings a zone's vehicle count above max_vehicles_in_zone, and
   a manual or automatic spawn in a zone that is at its maximum changes
   nothing *)
C7_SpawnRespectsCapacity ==
    [][ /\ \A z \in Zones : Len(vehicles'[z]) <= max_vehicles_in_zone(z)
        /\ (/\ ev'.op \in {"manual_spawn", "auto_spawn"}
            /\ Len(vehicles[ev'.zone]) >= max_vehicles_in_zone(ev'.zone))
             => vehicles' = vehicles ]_vars

\* the automatic spawn came due in a zone that was at its maximum
C7_Witness ==
    /\ ev.op = "auto_spawn"
    /\ ev.out = "full"
    /\ Len(vehicles[ev.zone]) = max_vehicles_in_zone(ev.zone)

-----------------------------------------------------------------------------
(* Light durations *)

(* C11 as stated: the green phases of a light are the first
   round(0.45 * cycle_time) phases of its cycle, the yellow phases the next
   round(0.10 * cycle_time), and the red phases the rest (round is Python's:
   to the nearest integer, a tie to the even one) *)
C11_RoundedDurations ==
    bench.on =>
      LET c == bench.a.cycle_time
          t == bench.a.current_cycle_time
          Round(n) == LET q == n \div 100
                          r == n % 100
                      IN  IF 2 * r < 100 THEN q
                          ELSE IF 2 * r > 100 THEN q + 1
                          ELSE IF q % 2 = 0 THEN q ELSE q + 1
          g == Round(45 * c)
          y == Round(10 * c)
      IN  /\ (bench.a.state = "green") = (t < g)
          /\ (bench.a.state = "yellow") = (g <= t /\ t < g + y)
          /\ (bench.a.state = "red") = (g + y <= t /\ t < c)

(* C11 amended: the green phases of a light are the first g phases of its
   cycle, g the largest integer with g <= 0.45 * cycle_time (truncation), the
   yellow phases the next y, y the largest integer with y <= 0.10 * cycle_time,
   and the red phases the remaining cycle_time - g - y *)
C11_TruncatedDurations ==
    bench.on =>
      LET c == bench.a.cycle_time
          t == bench.a.current_cycle_time
          g == CHOOSE k \in 0..c : 100 * k <= 45 * c /\ 45 * c < 100 * (k + 1)
          y == CHOOSE k \in 0..c : 100 * k <= 10 * c /\ 10 * c < 100 * (k + 1)
      IN  /\ (bench.a.state = "green") = (t < g)
          /\ (bench.a.state = "yellow") = (g <= t /\ t < g + y)
          /\ (bench.a.state = "red") = (g + y <= t /\ t < c)

\* cycle_time 242: 0.45 * 242 = 108.9, and phase 108 is already yellow
C11_Witness ==
    /\ bench.on
    /\ bench.n > 0
    /\ bench.a.cycle_time = 242
    /\ bench.a.current_cycle_time = 108
    /\ bench.a.state = "yellow"

-----------------------------------------------------------------------------
(* Vehicles at lights *)

\* the vehicle as update_in_zone moves it tentatively: resumed if it was
\* waiting, one step ahead, its local rect following
TentativeMove(z, v) ==
    WithLocalRect(Moved(IF v.stopped THEN resume(v) ELSE v), Bounds(z).x, Bounds(z).y)

\* the tentative position faces a red light closer than the stopping threshold
RedWithinThreshold(z, v) ==
    LET m == TentativeMove(z, v)
        k == _get_relevant_light_local(m, lights[z])
    IN  /\ ~v.is_despawned_globally
        /\ k # 0
        /\ lights[z][LightNames[k]].state = "red"
        /\ 10 * DistToLightEdge(m, lights[z][LightNames[k]]) < StoppingDecisionThreshold10(m)

(* C12: when the tentative move of a tick leaves a vehicle facing a red
   relevant light within its stopping threshold, the vehicle ends that tick at
   its pre-tick position with stopped = TRUE and speed = 0 *)
C12_RedLightStop ==
    [][ \A z \in Zones :
          UpdatesRan(z) =>
            \A i \in 1..Len(vehicles[z]), j \in 1..Len(vehicles'[z]) :
                (/\ vehicles'[z][j].id = vehicles[z][i].id
                 /\ vehicles[z][i].id \in current_zone_vehicles_list[z]
                 /\ RedWithinThreshold(z, vehicles[z][i]))
                  => /\ vehicles'[z][j].global_x = vehicles[z][i].global_x
                     /\ vehicles'[z][j].global_y = vehicles[z][i].global_y
                     /\ vehicles'[z][j].stopped
                     /\ vehicles'[z][j].speed = 0 ]_vars

\* a northbound vehicle that advanced one tick and was then held at the red
\* light, one step short of where it would have been
C12_Witness ==
    /\ ev.op = "scan"
    /\ \E i \in 1..Len(vehicles[ev.zone]) :
          /\ vehicles[ev.zone][i].direction = "up"
          /\ vehicles[ev.zone][i].stopped
          /\ vehicles[ev.zone][i].speed = 0
          /\ vehicles[ev.zone][i].global_y < Bounds(ev.zone).h - 20
          /\ lights[ev.zone]["S"].state = "red"

-----------------------------------------------------------------------------
(* Inbound migrations *)

(* C13: a migration message delivered to the zone it is addressed to, for a
   vehicle the zone does not hold, while the zone holds max_vehicles_in_zone
   vehicles, is discarded: no zone's vehicle set changes, nothing is
   published for the vehicle, and the vehicle is in no zone afterwards *)
C13_FullZoneDropsMigration ==
    [][ (/\ ev'.op = "deliver"
         /\ ev'.out \notin {"misrouted", "invalid", "duplicate"}
         /\ Len(vehicles[ev'.zone]) >= max_vehicles_in_zone(ev'.zone))
          => /\ vehicles' = vehicles
             /\ published' = published
             /\ \A z \in Zones : ev'.ids \cap SeqIds(vehicles'[z]) = {} ]_vars

\* a migration arrived at a zone holding two vehicles of its own, its maximum
C13_Witness ==
    /\ ev.op = "deliver"
    /\ ev.out = "full"
    /\ Len(vehicles[ev.zone]) = max_vehicles_in_zone(ev.zone)
    /\ ev.ids = {NewVehicleId("B", 1)}
    /\ ~HoldsId(ev.zone, NewVehicleId("B", 1))

(* C14: a delivery changes a zone's vehicle set only if the message's
   target_zone is that zone's id; a message addressed to another zone leaves
   the state of the zone that received it unchanged *)
C14_TargetRevalidated ==
    [][ \A z \in Zones, m \in InboundMessages :
          (Deliver(z, m) /\ m.target_zone # z)
            => UNCHANGED << vehicles, lights, spawn_timer, spawn_interval,
                            manual_spawn_pending, is_running, pc, ticks, published,
                            current_zone_vehicles_list >> ]_vars

\* a message for another zone arrived at a zone that had room for its vehicle
C14_Witness ==
    /\ ev.op = "deliver"
    /\ ev.out = "misrouted"
    /\ Len(vehicles[ev.zone]) < max_vehicles_in_zone(ev.zone)
    /\ \A id \in ev.ids : id # NoId /\ ~HoldsId(ev.zone, id)

(* C15: the vehicle a zone builds from an accepted migration message has the
   id, position, speed, base speed, direction and stopped flag of the
   snapshot in the message *)
C15_SnapshotRoundTrip ==
    [][ \A z \in Zones, m \in InboundMessages :
          (/\ Deliver(z, m)
           /\ m.vehicle_state.id \notin SeqIds(vehicles[z])
           /\ m.vehicle_state.id \in SeqIds(vehicles'[z]))
            => LET d == m.vehicle_state
                   v == vehicles'[z][IndexOf(vehicles'[z], d.id)]
               IN  /\ v.id = d.id
                   /\ v.global_x = d.x /\ v.global_y = d.y
                   /\ v.speed = d.speed
                   /\ v.original_speed = d.original_speed
                   /\ v.direction = d.direction
                   /\ v.stopped = d.stopped ]_vars

-----------------------------------------------------------------------------
(* Interleaving of tasks *)

(* C16 as stated: between the start and the end of one zone's update_tick no
   other task takes a step *)
C16_TickAtomic ==
    [][ \A z \in Zones : pc[z] \in {"lights", "vehicles"} => pc'[z] # pc[z] ]_vars

(* C16: update_tick suspends while the lights update and while the vehicle
   updates run, and other tasks step there.  Such a step leaves the ticking
   zone's lights, spawn timer, list of vehicles to update and the vehicles it
   already holds as they were; only an inbound handler of that zone changes
   its vehicle set, by appending the delivered vehicle *)
C16_SuspendedTickUndisturbed ==
    [][ \A z \in Zones :
          (pc[z] \in {"lights", "vehicles"} /\ pc'[z] = pc[z]) =>
            /\ lights'[z] = lights[z]
            /\ spawn_timer'[z] = spawn_timer[z]
            /\ current_zone_vehicles_list'[z] = current_zone_vehicles_list[z]
            /\ Len(vehicles'[z]) >= Len(vehicles[z])
            /\ SubSeq(vehicles'[z], 1, Len(vehicles[z])) = vehicles[z]
            /\ vehicles'[z] # vehicles[z] => (ev'.op = "deliver" /\ ev'.zone = z) ]_vars

\* a vehicle was delivered to a zone suspended in its vehicle updates, and
\* is not among the vehicles that tick updates
C16_Witness ==
    \E z \in Zones :
        /\ pc[z] = "vehicles"
        /\ ev.op = "deliver" /\ ev.zone = z /\ ev.out = "accepted"
        /\ ev.ids \cap current_zone_vehicles_list[z] = {}
        /\ ev.ids \subseteq SeqIds(vehicles[z])

(* C17: a zone's vehicle set changes only in a step of that zone's own tick
   or in a delivery of a migration message to that zone, and its lights only
   in a step of its own tick: neither another zone's tick nor the GUI loop
   modifies them *)
C17_ZoneFrame ==
    [][ \A z \in Zones :
          /\ vehicles'[z] # vehicles[z]
                => /\ ev'.zone = z
                   /\ ev'.op \in {"manual_spawn", "auto_spawn", "scan", "deliver"}
                   /\ ev'.op # "deliver" => pc'[z] # pc[z]
          /\ lights'[z] # lights[z]
                => /\ ev'.zone = z
                   /\ ev'.op \in {"lights", "auto_spawn"}
                   /\ pc'[z] # pc[z] ]_vars

\* zone A has just moved its vehicle while zone B, holding a vehicle of its
\* own, is suspended in the middle of a tick
C17_Witness ==
    /\ Zones = {"A", "B"}
    /\ ev.op = "scan" /\ ev.zone = "A"
    /\ vehicles["A"] # << >>
    /\ vehicles["B"] # << >>
    /\ pc["B"] = "vehicles"

-----------------------------------------------------------------------------
(* Stopping *)

(* C18: stop() only sets the running flag.  A tick in flight when stop() is
   called goes on through its remaining steps (the light update and spawn
   timer, then the vehicle updates and the migration scan) unless the
   shutdown's timeout cancels the task; no tick is started after stop(); the
   loop is left at its next test; and the zone task eventually ends *)
C18_StopLetsTickFinish ==
    /\ [][ /\ ev'.op = "shutdown" =>
                UNCHANGED << pc, vehicles, lights, spawn_timer, manual_spawn_pending,
                             current_zone_vehicles_list, ticks, published >>
           /\ \A z \in Zones :
                 (stop_called[z] /\ pc'[z] # pc[z] /\ ev'.op # "cancel") =>
                    /\ ticks'[z] = ticks[z]
                    /\ pc[z] = "sleep" => (pc'[z] = "ended" /\ ev'.op = "loop_exit")
                    /\ pc[z] = "lights" => (/\ pc'[z] \in {"vehicles", "sleep"}
                                            /\ ev'.zone = z
                                            /\ ev'.op \in {"lights", "auto_spawn"}
                                            /\ lights'[z] = ZoneMapUpdate(lights[z]))
                    /\ pc[z] = "vehicles" => (ev'.zone = z /\ ev'.op = "scan") ]_vars
    /\ \A z \in ZoneIdsOf(CityTwo) : stop_called[z] ~> (pc[z] = "ended")

\* stop() found the zone in the middle of a tick, and the tick went on to
\* its migration scan and returned to the loop
C18_Witness ==
    \E z \in Zones :
        /\ stop_called[z]
        /\ ev.op = "scan" /\ ev.zone = z /\ ev.out = "done"
        /\ pc[z] = "sleep"
        /\ vehicles[z] # << >>

(* C19: _shutdown calls stop() on every zone, waits for the zone tasks with
   a timeout and cancels those still pending, which end where they are
   suspended.  Once begun it always completes, and when it has, every zone
   task has ended and every zone's running flag is false *)
C19_ShutdownCompletes ==
    /\ [](ev.op = "shutdown" => \A z \in Zones : stop_called[z] /\ ~is_running[z])
    /\ [](orch = "done" => \A z \in Zones : pc[z] = "ended" /\ ~is_running[z])
    /\ [][orch = "done" => orch' = "done"]_vars
    /\ (orch = "waiting") ~> (orch = "done")

\* the timeout found a zone task still pending, holding a vehicle, and
\* cancelled it
C19_Witness ==
    /\ orch = "closing"
    /\ ev.op = "cancel"
    /\ \E z \in Zones : vehicles[z] # << >> /\ ticks[z] < MaxTicks

-----------------------------------------------------------------------------
(* Exceptions in vehicle updates *)

(* C20: when the update of one vehicle raises in a tick, the other listed
   vehicles are updated as in any tick, the migration scan runs on the
   result, and the zone task goes back to its loop with its running flag as
   it was *)
C20_UpdateErrorContained ==
    [][ \A z \in Zones :
          (pc[z] = "vehicles" /\ ev'.zone = z /\ ev'.errors # {}) =>
            LET updated == UpdateListed(z, lights[z], vehicles[z],
                                        current_zone_vehicles_list[z], ev'.errors)
            IN  /\ ev'.op = "scan"
                /\ ev'.out = "done"
                /\ \A i \in 1..Len(vehicles[z]) :
                      (/\ vehicles[z][i].id \in current_zone_vehicles_list[z]
                       /\ vehicles[z][i].id \notin ev'.errors)
                        => updated[i] = update_in_zone(vehicles[z][i], lights[z], vehicles[z],
                                                       Bounds(z).x, Bounds(z).y)
                /\ \E publish_ok \in BOOLEAN :
                      vehicles'[z] = _check_and_handle_migrations_out(z, updated, broker_ready,
                                                                      publish_ok).vs
                /\ pc'[z] = "sleep"
                /\ is_running'[z] = is_running[z] ]_vars

\* the update of one vehicle raised; the other vehicle of the zone moved on
\* and the zone is back in its loop, running
C20_Witness ==
    \E z \in Zones :
        /\ ev.op = "scan" /\ ev.zone = z /\ ev.errors # {}
        /\ pc[z] = "sleep" /\ is_running[z]
        /\ \E i, j \in 1..Len(vehicles[z]) :
              /\ vehicles[z][i].id \in ev.errors
              /\ vehicles[z][j].id \notin ev.errors
              /\ ~vehicles[z][j].stopped
              /\ vehicles[z][j].direction = "right"
              /\ vehicles[z][j].global_x > -10

-----------------------------------------------------------------------------
(* C22: the metrics hooks follow the vehicle lifecycle.  vehicle_spawned is
   called once per vehicle identity, so a zone that accepts a migrated
   vehicle does not call it again for that identity, and the scan that
   despawns a vehicle for good calls vehicle_despawned for it, once *)
C22_HooksFollowLifecycle ==
    [][ /\ (ev'.op = "deliver" /\ ev'.out = "accepted") =>
              \A id \in ev'.ids : [hook |-> "vehicle_spawned", id |-> id] \notin ev'.metrics
        /\ (ev'.op = "scan") =>
              \A id \in ev'.ids : [hook |-> "vehicle_despawned", id |-> id] \in ev'.metrics ]_vars

-----------------------------------------------------------------------------
(* The order of a tick *)

(* C23: a tick takes its steps in this order: the pending manual spawn, the
   advance of the zone's lights, the automatic spawn timer, the update of
   every vehicle that is not despawned, the migration scan.  The vehicles
   decide against the lights as advanced in this tick, and a vehicle spawned
   in the tick, manually or by the timer, is among the vehicles updated and
   scanned in it *)
C23_TickOrder ==
    [][ \A z \in Zones :
          /\ (pc[z] = "sleep" /\ pc'[z] # "sleep") =>
                /\ pc'[z] \in {"lights", "ended"}
                /\ pc'[z] = "lights" =>
                      /\ ev'.op = (IF manual_spawn_pending[z] THEN "manual_spawn" ELSE "tick_begin")
                      /\ ~manual_spawn_pending'[z]
                      /\ lights'[z] = lights[z]
                      /\ spawn_timer'[z] = spawn_timer[z]
          /\ (pc[z] = "lights" /\ pc'[z] \in {"vehicles", "sleep"}) =>
                /\ lights'[z] = ZoneMapUpdate(lights[z])
                /\ SeqIds(vehicles[z]) \subseteq SeqIds(vehicles'[z])
                /\ (ev'.op = "auto_spawn") = (spawn_timer[z] + 1 >= spawn_interval[z])
                /\ (ev'.op = "auto_spawn" /\ ev'.out = "spawned") =>
                      ev'.ids \subseteq current_zone_vehicles_list'[z]
                /\ current_zone_vehicles_list'[z] =
                      {vehicles'[z][i].id :
                          i \in {j \in 1..Len(vehicles'[z]) : ~vehicles'[z][j].is_despawned_globally}}
                /\ (pc'[z] = "vehicles") = (current_zone_vehicles_list'[z] # {})
          /\ (pc[z] = "vehicles") =>
                /\ lights'[z] = lights[z]
                /\ pc'[z] \in {"vehicles", "sleep", "ended"}
          /\ UpdatesRan(z) =>
                \E publish_ok \in BOOLEAN :
                   vehicles'[z] =
                      _check_and_handle_migrations_out(
                          z, UpdateListed(z, lights[z], vehicles[z],
                                          current_zone_vehicles_list[z], {}),
                          broker_ready, publish_ok).vs ]_vars

\* the first tick of a zone has spawned a vehicle on the eastbound lane and
\* the same tick has moved it on by its speed
C23_Witness ==
    \E z \in Zones :
        /\ ticks[z] = 1 /\ pc[z] = "sleep"
        /\ ev.op = "scan" /\ ev.zone = z
        /\ Len(vehicles[z]) = 1
        /\ vehicles[z][1].direction = "right"
        /\ vehicles[z][1].global_x =
              Bounds(z).x + get_spawn_points_local(z)[2].x + vehicles[z][1].speed
        /\ vehicles[z][1].speed > 0

-----------------------------------------------------------------------------
(* The spawn timer *)

\* this step is the one in which the tick of zone z runs its spawn timer
TimerRuns(z) == pc[z] = "lights" /\ pc'[z] \in {"vehicles", "sleep"}

\* the spawn timer of zone z fires in this step
TimerFires(z) == TimerRuns(z) /\ spawn_timer[z] + 1 >= spawn_interval[z]

(* C24 as stated: each time the spawn timer of a zone fires, the zone's spawn
   interval is drawn anew at random *)
C24_IntervalRerolled ==
    [][ \A z \in Zones : TimerFires(z) => "spawn_interval" \in ev'.drawn ]_vars

(* C24, amended: the spawn interval of a zone is drawn once, when the zone is
   built, and no step changes it.  The timer counts the ticks since it last
   fired and fires when it reaches the interval, so successive automatic spawn
   attempts of a zone are always spawn_interval ticks apart *)
C24_IntervalFixed ==
    /\ [](\A z \in Zones : spawn_timer[z] < spawn_interval[z])
    /\ [][ \A z \in Zones :
             /\ spawn_interval'[z] = spawn_interval[z]
             /\ TimerFires(z) => (ev'.op = "auto_spawn" /\ ev'.zone = z /\ spawn_timer'[z] = 0)
             /\ (TimerRuns(z) /\ ~TimerFires(z)) =>
                   (ev'.op = "lights" /\ spawn_timer'[z] = spawn_timer[z] + 1)
             /\ ~TimerRuns(z) => spawn_timer'[z] = spawn_timer[z] ]_vars

\* the timer fired in the first tick and has just fired again, in tick 46,
\* with the interval of 45 ticks it started with
C24_Witness ==
    \E z \in Zones :
        /\ ev.op = "auto_spawn" /\ ev.zone = z
        /\ ticks[z] = 1 + spawn_interval[z]
        /\ spawn_timer[z] = 0
        /\ spawn_interval[z] = 45

-----------------------------------------------------------------------------
(* Leaving the city *)

\* after its update in this tick, the centre of v is outside zone z and inside
\* the bounds of no zone adjacent to z
LeftTheCity(z, v) ==
    /\ ~v.is_despawned_globally
    /\ ~CollidePoint(Bounds(z), CenterX(v), CenterY(v))
    /\ \A i \in 1..Len(ConfOf(z).adjacencies) :
          ConfOf(z).adjacencies[i] \in Zones =>
             ~CollidePoint(Bounds(ConfOf(z).adjacencies[i]), CenterX(v), CenterY(v))

(* C25: a vehicle whose centre is outside its zone and inside no adjacent
   zone is, in the scan of that tick, marked globally despawned, a despawn
   notification is emitted for it, and it is removed from the zone's set; no
   migration message is published for it *)
C25_DespawnOnLeavingCity ==
    [][ \A z \in Zones :
          UpdatesRan(z) =>
            LET updated == UpdateListed(z, lights[z], vehicles[z],
                                        current_zone_vehicles_list[z], ev'.errors)
            IN  \A i \in 1..Len(updated) :
                   LeftTheCity(z, updated[i]) =>
                      /\ updated[i].id \in ev'.ids
                      /\ [event_type |-> "despawned_global", id |-> updated[i].id] \in ev'.notices
                      /\ updated[i].id \notin SeqIds(vehicles'[z])
                      /\ \A m \in published' \ published : m.id # updated[i].id ]_vars

-----------------------------------------------------------------------------
(* The migration target *)

\* the ids a zone's configuration lists as adjacent
AdjacentIds(z) == {ConfOf(z).adjacencies[i] : i \in 1..Len(ConfOf(z).adjacencies)}

(* C26: the target the scan finds for a vehicle is a zone of the sender's
   adjacency list whose declared bounds contain the vehicle's centre.  A
   vehicle outside its zone for which no listed zone contains the centre has
   no target and leaves the city, whether or not a listed zone exists and
   whether or not an unlisted zone contains the centre *)
C26_TargetAdjacentAndContaining ==
    [][ \A z \in Zones :
          UpdatesRan(z) =>
            /\ \A c \in ev'.crossing :
                  /\ c.target \in AdjacentIds(z)
                  /\ \E i \in 1..Len(vehicles'[z]) :
                        /\ vehicles'[z][i].id = c.id
                        /\ CollidePoint(Bounds(c.target), CenterX(vehicles'[z][i]),
                                        CenterY(vehicles'[z][i]))
            /\ \A m \in published' \ published : m.target_zone \in AdjacentIds(z)
            /\ \A g \in ev'.gone :
                  \A y \in AdjacentIds(z) \cap Zones : ~CollidePoint(Bounds(y), g.x, g.y) ]_vars

\* zone B, which lists no adjacent zone, has despawned a vehicle whose centre
\* was inside the bounds of zone A
C26_Witness ==
    /\ Zones = {"A", "B"}
    /\ ev.op = "scan" /\ ev.zone = "B"
    /\ "A" \notin AdjacentIds("B")
    /\ \E g \in ev.gone : CollidePoint(Bounds("A"), g.x, g.y) /\ g.id \notin SeqIds(vehicles["B"])

-----------------------------------------------------------------------------
(* Red lights inside the lookahead distance *)

\* the relevant light of the moving vehicle v at its tentative position is red
RedRelevantLight(z, v) ==
    LET m == TentativeMove(z, v)
        k == _get_relevant_light_local(m, lights[z])
    IN  /\ ~v.is_despawned_globally
        /\ ~v.stopped
        /\ k # 0
        /\ lights[z][LightNames[k]].state = "red"

\* ten times the distance from the tentative position of v to its relevant light
RelevantDist10(z, v) ==
    LET m == TentativeMove(z, v)
    IN  10 * DistToLightEdge(m, lights[z][LightNames[_get_relevant_light_local(m, lights[z])]])

\* no other vehicle of the zone, as it was or as this tick leaves it, overlaps
\* the tentative position of v
NoOverlap(z, v, updated) ==
    \A o \in {vehicles[z][j] : j \in 1..Len(vehicles[z])} \cup {updated[j] : j \in 1..Len(updated)} :
        o.id # v.id => ~CollideRect(VRect(TentativeMove(z, v)), VRect(o))

(* C27 as stated: a moving vehicle whose relevant light, within the lookahead
   distance, is red after the tentative move stops in that tick, at whatever
   distance inside the lookahead it is *)
C27_RedStopsInLookahead ==
    [][ \A z \in Zones :
          UpdatesRan(z) =>
            LET updated == UpdateListed(z, lights[z], vehicles[z],
                                        current_zone_vehicles_list[z], ev'.errors)
            IN  \A i \in 1..Len(vehicles[z]) :
                   (/\ vehicles[z][i].id \in current_zone_vehicles_list[z]
                    /\ vehicles[z][i].id \notin ev'.errors
                    /\ RedRelevantLight(z, vehicles[z][i]))
                     => updated[i].stopped /\ updated[i].speed = 0 ]_vars

(* C27, amended: a moving vehicle whose relevant light is red after the
   tentative move stops in that tick only if its distance to the light is
   below the stopping threshold original_speed * 2.5 + draw_width * 0.3.  From
   that distance on, up to the lookahead distance, the red light does not
   stop it: with no other vehicle in its way the move is committed *)
C27_RedStopsWithinThreshold ==
    [][ \A z \in Zones :
          UpdatesRan(z) =>
            LET updated == UpdateListed(z, lights[z], vehicles[z],
                                        current_zone_vehicles_list[z], ev'.errors)
            IN  \A i \in 1..Len(vehicles[z]) :
                   LET v == vehicles[z][i]
                   IN  (/\ v.id \in current_zone_vehicles_list[z]
                        /\ v.id \notin ev'.errors
                        /\ RedRelevantLight(z, v))
                         => IF RelevantDist10(z, v) <
                                  (25 * v.original_speed) + (3 * draw_width(v.direction))
                            THEN /\ updated[i].stopped /\ updated[i].speed = 0
                                 /\ updated[i].global_x = v.global_x
                                 /\ updated[i].global_y = v.global_y
                            ELSE NoOverlap(z, v, updated) =>
                                 /\ ~updated[i].stopped
                                 /\ updated[i].speed = v.speed
                                 /\ updated[i].global_x = TentativeMove(z, v).global_x
                                 /\ updated[i].global_y = TentativeMove(z, v).global_y ]_vars

\* a vehicle has just moved on although the light it is heading for is red and
\* inside its lookahead distance: it is still further from the light than the
\* stopping threshold
C27_Witness ==
    /\ ev.op = "scan"
    /\ \E i \in 1..Len(vehicles[ev.zone]) :
          LET v == vehicles[ev.zone][i]
              m == WithLocalRect(v, Bounds(ev.zone).x, Bounds(ev.zone).y)
              k == _get_relevant_light_local(m, lights[ev.zone])
          IN  /\ ~v.stopped /\ v.speed > 0
              /\ m.rect_x = v.rect_x /\ m.rect_y = v.rect_y
              /\ k # 0
              /\ lights[ev.zone][LightNames[k]].state = "red"
              /\ 10 * DistToLightEdge(m, lights[ev.zone][LightNames[k]]) >= StoppingDecisionThreshold10(v)
              /\ DistToLightEdge(m, lights[ev.zone][LightNames[k]]) < LookaheadDistance(v)

-----------------------------------------------------------------------------
(* Waiting vehicles *)

\* what the light check tells the waiting vehicle v at the position it waits at
ActionWhereItWaits(z, v) ==
    _check_action_at_light_local(WithLocalRect(v, Bounds(z).x, Bounds(z).y), lights[z])

\* the position one step of the base speed ahead of v
StepAhead(z, v) ==
    WithLocalRect(Moved([v EXCEPT !.stopped = FALSE, !.speed = v.original_speed]),
                  Bounds(z).x, Bounds(z).y)

(* C28 as stated: a waiting vehicle for which the light check says proceed
   ends the tick with stopped cleared and its speed back at the base speed,
   whatever is ahead of it; one for which it says stop ends the tick with
   position, speed and stopped flag unchanged *)
C28_ResumeOnLightAlone ==
    [][ \A z \in Zones :
          UpdatesRan(z) =>
            LET updated == UpdateListed(z, lights[z], vehicles[z],
                                        current_zone_vehicles_list[z], ev'.errors)
            IN  \A i \in 1..Len(vehicles[z]) :
                   LET v == vehicles[z][i]
                   IN  (/\ v.id \in current_zone_vehicles_list[z]
                        /\ v.id \notin ev'.errors
                        /\ v.stopped)
                         => IF ActionWhereItWaits(z, v) = "proceed"
                            THEN ~updated[i].stopped /\ updated[i].speed = v.original_speed
                            ELSE /\ updated[i].stopped = v.stopped
                                 /\ updated[i].speed = v.speed
                                 /\ updated[i].global_x = v.global_x
                                 /\ updated[i].global_y = v.global_y ]_vars

(* C28, amended: a waiting vehicle for which the light check says stop is left
   as it is.  One for which it says proceed resumes and is then treated like a
   moving vehicle in the same tick: it steps ahead by its base speed, and if
   the light check at the new position says stop, or collision avoidance
   applies, it is put back where it waited, stopped with speed 0; only
   otherwise does it end the tick moving at its base speed *)
C28_ResumeThenCheckedAgain ==
    [][ \A z \in Zones :
          UpdatesRan(z) =>
            LET updated == UpdateListed(z, lights[z], vehicles[z],
                                        current_zone_vehicles_list[z], ev'.errors)
            IN  \A i \in 1..Len(vehicles[z]) :
                   LET v == vehicles[z][i]
                       m == StepAhead(z, v)
                       back == /\ updated[i].stopped /\ updated[i].speed = 0
                               /\ updated[i].global_x = v.global_x
                               /\ updated[i].global_y = v.global_y
                       ahead == /\ ~updated[i].stopped /\ updated[i].speed = v.original_speed
                                /\ updated[i].global_x = m.global_x
                                /\ updated[i].global_y = m.global_y
                   IN  (/\ v.id \in current_zone_vehicles_list[z]
                        /\ v.id \notin ev'.errors
                        /\ ~v.is_despawned_globally
                        /\ v.stopped)
                         => IF ActionWhereItWaits(z, v) # "proceed"
                            THEN /\ updated[i].stopped /\ updated[i].speed = v.speed
                                 /\ updated[i].global_x = v.global_x
                                 /\ updated[i].global_y = v.global_y
                            ELSE IF _check_action_at_light_local(m, lights[z]) = "stop" THEN back
                            ELSE IF NoOverlap(z, v, updated) THEN ahead
                            ELSE back \/ ahead ]_vars

\* a vehicle that waited at a red light has moved on in the tick in which the
\* light was green again
C28_Witness ==
    /\ ev.op = "scan"
    /\ ticks[ev.zone] > 46
    /\ \E i \in 1..Len(vehicles[ev.zone]) :
          LET v == vehicles[ev.zone][i]
          IN  /\ v.direction = "up"
              /\ ~v.stopped /\ v.speed = v.original_speed
              /\ v.global_y = Bounds(ev.zone).y + Bounds(ev.zone).h - 20 - v.original_speed
              /\ lights[ev.zone]["S"].state = "green"

-----------------------------------------------------------------------------
(* Collision avoidance *)

\* the zone's vehicle list as the update of its i-th vehicle finds it: the
\* vehicles before it already updated in this tick, the others not yet
ListAtUpdate(z, i, updated) ==
    [j \in 1..Len(vehicles[z]) |-> IF j < i THEN updated[j] ELSE vehicles[z][j]]

(* C29: a vehicle that, after its tentative move, overlaps another vehicle of
   its zone that is not despawned, lies ahead of its centre along the travel
   axis within a fifth of a vehicle length of its front, and is laterally
   aligned, is put back at its pre-tick position, stopped with speed 0.  A
   vehicle that the light check lets go and that overlaps no such vehicle,
   only vehicles behind it or not aligned with it, commits its move *)
C29_CollisionAvoidance ==
    [][ \A z \in Zones :
          UpdatesRan(z) =>
            LET updated == UpdateListed(z, lights[z], vehicles[z],
                                        current_zone_vehicles_list[z], ev'.errors)
            IN  \A i \in 1..Len(vehicles[z]) :
                   LET v == vehicles[z][i]
                       m == TentativeMove(z, v)
                       a == VRect(m)
                       others == ListAtUpdate(z, i, updated)
                       Lateral(b) ==
                           IF Horizontal(v.direction)
                           THEN 20 * Abs(RCenterY(a) - RCenterY(b)) < 9 * (a.h + b.h)
                           ELSE 20 * Abs(RCenterX(a) - RCenterX(b)) < 9 * (a.w + b.w)
                       Ahead(b) ==
                           CASE v.direction = "right" ->
                                  RLeft(b) > RCenterX(a) /\ 10 * RLeft(b) < (10 * RRight(a)) + (2 * a.w)
                             [] v.direction = "left" ->
                                  RRight(b) < RCenterX(a) /\ 10 * RRight(b) > (10 * RLeft(a)) - (2 * a.w)
                             [] v.direction = "down" ->
                                  RTop(b) > RCenterY(a) /\ 10 * RTop(b) < (10 * RBottom(a)) + (2 * a.h)
                             [] OTHER ->
                                  RBottom(b) < RCenterY(a) /\ 10 * RBottom(b) > (10 * RTop(a)) - (2 * a.h)
                       blocked == \E j \in 1..Len(others) :
                                     /\ j # i
                                     /\ ~others[j].is_despawned_globally
                                     /\ CollideRect(a, VRect(others[j]))
                                     /\ Ahead(VRect(others[j]))
                                     /\ Lateral(VRect(others[j]))
                   IN  (/\ v.id \in current_zone_vehicles_list[z]
                        /\ v.id \notin ev'.errors
                        /\ ~v.is_despawned_globally
                        /\ ~(v.stopped /\ ActionWhereItWaits(z, v) # "proceed")
                        /\ _check_action_at_light_local(m, lights[z]) # "stop")
                         => IF blocked
                            THEN /\ updated[i].stopped /\ updated[i].speed = 0
                                 /\ updated[i].global_x = v.global_x
                                 /\ updated[i].global_y = v.global_y
                            ELSE /\ ~updated[i].stopped
                                 /\ updated[i].global_x = m.global_x
                                 /\ updated[i].global_y = m.global_y ]_vars

\* two vehicles on the eastbound lane: the one that came second has been put
\* back where it was spawned, stopped behind the first, which moved on with
\* the second overlapping it from behind
C29_Witness ==
    /\ ev.op = "scan"
    /\ Len(vehicles[ev.zone]) = 2
    /\ LET lead == vehicles[ev.zone][1]
           second == vehicles[ev.zone][2]
       IN  /\ lead.direction = "right" /\ second.direction = "right"
           /\ ~lead.stopped /\ lead.speed > 0
           /\ second.stopped /\ second.speed = 0
           /\ second.global_x = Bounds(ev.zone).x + get_spawn_points_local(ev.zone)[2].x
           /\ lead.global_x > second.global_x + 20
           /\ CollideRect(get_global_rect(lead), get_global_rect(second))

-----------------------------------------------------------------------------
(* Light change notifications *)

(* C30: each update_async advances the phase of a light by exactly one tick,
   wrapping at cycle_time, and calls the change notification once when the
   state after the step differs from the state before it and not at all when
   the state is the same *)
C30_OneNoticePerChange ==
    [][ bench.on =>
          /\ bench'.a.current_cycle_time = (bench.a.current_cycle_time + 1) % bench.a.cycle_time
          /\ bench'.b.current_cycle_time = (bench.b.current_cycle_time + 1) % bench.b.cycle_time
          /\ bench'.changes.a - bench.changes.a = (IF bench'.a.state # bench.a.state THEN 1 ELSE 0)
          /\ bench'.changes.b - bench.changes.b = (IF bench'.b.state # bench.b.state THEN 1 ELSE 0) ]_vars

\* a light that went through its whole cycle, wrap included: four state
\* changes notified, back in the state it had after the first of them
C30_Witness ==
    /\ bench.on
    /\ bench.offset = 0
    /\ bench.n > bench.a.cycle_time
    /\ bench.changes.a = 4
    /\ bench.a.state = "yellow"
    /\ bench.changes.b >= 3

-----------------------------------------------------------------------------
(* Manual spawn requests *)

\* the first step of a tick of zone z
TickBegins(z) == pc[z] = "sleep" /\ pc'[z] = "lights"

(* C31 as stated: a manual-spawn request that trigger_manual_spawn accepted
   results in one more vehicle in the zone at the first step of the zone's
   next tick, and a request made when the zone is at capacity returns false
   and records nothing *)
C31_AcceptedRequestSpawns ==
    [][ /\ \A z \in Zones :
             (TickBegins(z) /\ manual_spawn_pending[z])
               => Len(vehicles'[z]) = Len(vehicles[z]) + 1
        /\ (ev'.op = "trigger" /\ Len(vehicles[ev'.zone]) >= max_vehicles_in_zone(ev'.zone))
             => (ev'.out = "full" /\ manual_spawn_pending' = manual_spawn_pending) ]_vars

(* C31 amended: an accepted request sets the zone's pending flag and changes
   no vehicle; a request made when the zone is at capacity returns false and
   records nothing.  The first step of the zone's next tick clears the flag
   and, when it was set, makes one spawn attempt: in a zone that is at
   capacity by then the attempt changes nothing; otherwise one vehicle is
   built at a spawn point under a newly drawn id, which counts one more
   vehicle unless the id is already present, and then takes that vehicle's
   place.  Without a pending request the step spawns nothing *)
C31_PendingRequestAttempted ==
    [][ /\ \A z \in Zones :
             TickBegins(z) =>
               /\ ~manual_spawn_pending'[z]
               /\ IF manual_spawn_pending[z] /\ Len(vehicles[z]) < max_vehicles_in_zone(z)
                  THEN \E id \in ev'.ids :
                         /\ id \in SeqIds(vehicles'[z])
                         /\ SeqIds(vehicles'[z]) = SeqIds(vehicles[z]) \cup {id}
                         /\ Len(vehicles'[z]) =
                              (IF id \in SeqIds(vehicles[z]) THEN Len(vehicles[z])
                               ELSE Len(vehicles[z]) + 1)
                         /\ \A i \in 1..Len(vehicles[z]) :
                              vehicles[z][i].id # id => vehicles'[z][i] = vehicles[z][i]
                  ELSE vehicles'[z] = vehicles[z]
        /\ ev'.op = "trigger" =>
             /\ vehicles' = vehicles
             /\ IF Len(vehicles[ev'.zone]) < max_vehicles_in_zone(ev'.zone)
                THEN ev'.out = "accepted" /\ manual_spawn_pending'[ev'.zone]
                ELSE ev'.out = "full" /\ manual_spawn_pending' = manual_spawn_pending ]_vars

\* a request was accepted, a migration then filled the zone, and the spawn
\* attempt of the next tick found the zone at capacity
C31_Witness ==
    /\ ev.op = "manual_spawn"
    /\ ev.out = "full"
    /\ Len(vehicles[ev.zone]) = max_vehicles_in_zone(ev.zone)
    /\ \E i \in 1..Len(vehicles[ev.zone]) : vehicles[ev.zone][i].current_zone_id = ev.zone
                                            /\ vehicles[ev.zone][i].id[1] # ev.zone

-----------------------------------------------------------------------------
(* Capacity *)

(* C32: in every reachable state, the states between an inbound migration
   and the next tick included, a zone's vehicle set holds at most
   max_vehicles_in_zone vehicles *)
C32_NeverAboveCapacity ==
    \A z \in Zones : Len(vehicles[z]) <= max_vehicles_in_zone(z)

\* between two ticks of a zone, an accepted migration has brought the zone,
\* which held a vehicle it had spawned, to its capacity
C32_Witness ==
    /\ ev.op = "deliver"
    /\ ev.out = "accepted"
    /\ pc[ev.zone] = "sleep"
    /\ Len(vehicles[ev.zone]) = max_vehicles_in_zone(ev.zone)
    /\ \E i, j \in 1..Len(vehicles[ev.zone]) :
         /\ vehicles[ev.zone][i].id[1] = ev.zone
         /\ vehicles[ev.zone][j].id[1] # ev.zone

-----------------------------------------------------------------------------
(* Vehicles outside the zone after the scan *)

(* C33: after the migration scan of a tick, no vehicle whose centre lies
   outside the zone's bounds is left in the zone's vehicle set *)
C33_NoneOutsideAfterScan ==
    ev.op = "scan" =>
        \A i \in 1..Len(vehicles[ev.zone]) : ~OutOfBounds(ev.zone, vehicles[ev.zone][i])

-----------------------------------------------------------------------------
(* Red lights are not passed *)

(* C34: in no tick does a vehicle go from before the stop edge of its
   relevant traffic light (distance to the light's edge >= 0) to past it
   (distance < 0) while that light is red *)
C34_NoCrossingOnRed ==
    [][ \A z \in Zones :
          UpdatesRan(z) =>
            LET updated == UpdateListed(z, lights[z], vehicles[z],
                                        current_zone_vehicles_list[z], ev'.errors)
            IN  \A i \in 1..Len(vehicles[z]) :
                   LET before == WithLocalRect(vehicles[z][i], Bounds(z).x, Bounds(z).y)
                       after == WithLocalRect(updated[i], Bounds(z).x, Bounds(z).y)
                       k == _get_relevant_light_local(before, lights[z])
                   IN  (/\ k # 0
                        /\ lights[z][LightNames[k]].state = "red"
                        /\ DistToLightEdge(before, lights[z][LightNames[k]]) >= 0)
                         => DistToLightEdge(after, lights[z][LightNames[k]]) >= 0 ]_vars

\* a westbound vehicle that the yellow light stopped on its way to the light
\* waits before the edge of the light, now red, less than three steps from it
C34_Witness ==
    /\ ev.op = "scan"
    /\ \E i \in 1..Len(vehicles[ev.zone]) :
         LET v == vehicles[ev.zone][i]
             l == lights[ev.zone].E
         IN  /\ v.direction = "left"
             /\ v.stopped
             /\ l.state = "red"
             /\ v.global_x < Bounds(ev.zone).x + get_spawn_points_local(ev.zone)[1].x
             /\ DistToLightEdge(WithLocalRect(v, Bounds(ev.zone).x, Bounds(ev.zone).y), l) >= 0
             /\ DistToLightEdge(WithLocalRect(v, Bounds(ev.zone).x, Bounds(ev.zone).y), l)
                  < 3 * v.original_speed

-----------------------------------------------------------------------------
(* The two approach pairs of an intersection *)

(* C35 as stated: whenever a light of one approach pair of a zone is green,
   both lights of the crossing pair are red *)
C35_GreenFacesRed ==
    \A z \in Zones : \A a \in {"E", "W"}, b \in {"N", "S"} :
        /\ lights[z][a].state = "green" => lights[z][b].state = "red"
        /\ lights[z][b].state = "green" => lights[z][a].state = "red"

(* C35 amended: the two lights of a pair show the same state; whenever the
   east-west pair is green the north-south pair is red, and whenever the
   north-south pair is green the east-west pair is yellow or red, never
   green *)
C35_GreenNeverFacesGreen ==
    \A z \in Zones :
        /\ lights[z].E.state = lights[z].W.state
        /\ lights[z].N.state = lights[z].S.state
        /\ lights[z].E.state = "green" => lights[z].N.state = "red"
        /\ lights[z].N.state = "green" => lights[z].E.state \in {"yellow", "red"}

\* the north-south pair has turned green in the tick in which the east-west
\* pair turned yellow
C35_Witness ==
    /\ ev.op = "lights"
    /\ lights[ev.zone].N.state = "green"
    /\ lights[ev.zone].S.state = "green"
    /\ lights[ev.zone].E.state = "yellow"
    /\ lights[ev.zone].N.current_cycle_time = 0

-----------------------------------------------------------------------------
(* Spawned ids *)

(* C36: a successful spawn (zone under capacity) makes the zone's vehicle
   count exactly one higher and replaces or removes no vehicle: the id of the
   new vehicle differs from every id present in the zone *)
C36_SpawnAddsFreshId ==
    [][ (ev'.op \in {"manual_spawn", "auto_spawn"} /\ ev'.out = "spawned")
          => /\ Len(vehicles'[ev'.zone]) = Len(vehicles[ev'.zone]) + 1
             /\ ev'.ids \cap SeqIds(vehicles[ev'.zone]) = {}
             /\ \A i \in 1..Len(vehicles[ev'.zone]) :
                  vehicles'[ev'.zone][i] = vehicles[ev'.zone][i] ]_vars

-----------------------------------------------------------------------------
(* The zone a vehicle names as its own *)

(* C37: every vehicle in the vehicle set of zone Z has current_zone_id = Z,
   after any sequence of spawns, ticks and accepted migrations *)
C37_VehiclesNameTheirZone ==
    \A z \in Zones : \A i \in 1..Len(vehicles[z]) : vehicles[z][i].current_zone_id = z

\* after a tick, a zone holds a vehicle it spawned and, moved on by the
\* tick, a vehicle that another zone spawned and that migrated in
C37_Witness ==
    /\ ev.op = "scan"
    /\ \E i, j \in 1..Len(vehicles[ev.zone]) :
         /\ vehicles[ev.zone][i].id[1] = ev.zone
         /\ vehicles[ev.zone][j].id[1] # ev.zone
         /\ vehicles[ev.zone][j].current_zone_id = ev.zone
         /\ vehicles[ev.zone][j].global_x > -20

-----------------------------------------------------------------------------
(* update_tick on a stopped zone *)

\* update_tick is called on zone z
UpdateTickCalled(z) ==
    /\ pc[z] \in {"sleep", "ended"}
    /\ ev'.zone = z
    /\ ev'.op \in {"update_tick", "tick_begin", "manual_spawn"}

(* C38: update_tick on a zone whose running flag is false changes nothing:
   no light advances, nothing is spawned and a pending manual-spawn request
   stays pending, no vehicle moves, none is migrated or despawned, and no
   part of a tick is left to run *)
C38_StoppedTickChangesNothing ==
    [][\A z \in Zones :
         (UpdateTickCalled(z) /\ ~is_running[z]) =>
            /\ lights' = lights
            /\ vehicles' = vehicles
            /\ spawn_timer' = spawn_timer
            /\ manual_spawn_pending' = manual_spawn_pending
            /\ published' = published
            /\ current_zone_vehicles_list' = current_zone_vehicles_list
            /\ pc' = pc
            /\ ticks' = ticks
            /\ ev'.out = "returned"
            /\ ev'.ids = {} /\ ev'.crossing = {} /\ ev'.gone = {}]_vars

\* update_tick has returned on a stopped zone that holds a vehicle and a
\* pending manual-spawn request
C38_Witness ==
    /\ ev.op = "update_tick"
    /\ ev.out = "returned"
    /\ ~is_running[ev.zone]
    /\ manual_spawn_pending[ev.zone]
    /\ Len(vehicles[ev.zone]) > 0

-----------------------------------------------------------------------------
(* The order of _shutdown *)

\* the steps of a zone's update_tick
TickOps == {"tick_begin", "manual_spawn", "auto_spawn", "lights", "updates", "scan"}

(* C39: during shutdown the broker connection is closed only after every
   zone task has finished, by leaving its loop or by being cancelled, and
   the metrics client is closed after that; after the broker disconnect no
   zone tick runs and no tick publishes a migration *)
C39_ShutdownOrder ==
    /\ [][(broker_ready /\ ~broker_ready') => \A z \in Zones : pc'[z] = "ended"]_vars
    /\ [][ev'.op = "metrics_close" =>
             ~broker_ready /\ orch = "closing" /\ \A z \in Zones : pc[z] = "ended"]_vars
    /\ [][~broker_ready =>
             /\ ev'.op \notin TickOps
             /\ published' = published
             /\ pc' = pc /\ ticks' = ticks
             /\ vehicles' = vehicles /\ lights' = lights]_vars

\* _shutdown is over, the metrics client closed last, in a run where one
\* zone with a vehicle was stopped after ticks and another before its first
C39_Witness ==
    /\ orch = "done"
    /\ ev.op = "metrics_close"
    /\ ~broker_ready
    /\ \A z \in Zones : pc[z] = "ended"
    /\ \E z \in Zones : ticks[z] > 0 /\ ticks[z] < MaxTicks /\ vehicles[z] # << >>
    /\ \E z \in Zones : ticks[z] = 0

=============================================================================
